---- MODULE Spec2Model ----
(***************************************************************************)
(* Game store server: the lobby session service, the room state machine,   *)
(* the catalog store's room tables and the game-server supervisor.         *)
(*                                                                         *)
(* The server is one asyncio event loop.  A coroutine runs without         *)
(* interruption between two awaits, so every action below is one such      *)
(* segment: it starts where a coroutine is resumed and ends at the next    *)
(* await that can suspend it (reading the next request, the subprocess     *)
(* exec, the 0.5 s sleep, the drain after a write).                        *)
(***************************************************************************)
EXTENDS Integers, Sequences, FiniteSets, TLC

\* ---------------------------------------------------------------- bounds
MaxClients == 2     \* connections the lobby accepts in one run
NumPlayers == 2     \* rows of the players table
MaxRooms   == 2     \* rows the rooms table can grow to
MaxSeats   == 2     \* largest max_players a CREATE_ROOM payload carries
MaxAuth    == 2     \* AUTH_REQUESTs read from all connections in one run
MaxReq     == 3     \* other requests read from all connections in one run
MaxSweepRooms == 3  \* rooms in the table the sweeper is examined on
MaxDownloads == 2   \* DOWNLOAD_REQUESTs the player's client sends in one run
MaxDevClients == 1  \* developer connections accepted in one run
NumDevelopers == 2  \* developer accounts
MaxDevAuth == 2     \* AUTH_REQUESTs the developer server reads in one run
MaxDevReq == 5      \* other requests the developer server reads in one run
NumNames == 2       \* game names a payload can carry; name 1 is taken at the start
NumVersions == 2    \* version strings a payload can carry
MaxCalls == 2       \* send_and_wait calls the player's client makes in one run
MaxNotes == 1       \* notifications the server sends to the player's client in one run
NumWriters == 2     \* coroutines that write frames at the same time
MaxFrames == 2      \* frames one coroutine writes
TicksPerDay == 2    \* instants of the clock in one day
MaxDay == 2         \* the last day the clock reaches
MaxSessions == 2    \* session tokens issued in one run
NumRaceClients == 2 \* developer connections that upload at the same time
NumComments == 2    \* review comments a payload can carry

\* config.CHUNK_SIZE
CHUNK_SIZE == 8192

\* The bounds of handle_submit_review's rating test.
MIN_RATING == 1
MAX_RATING == 5

\* Archive sizes: one full chunk exactly, and two full chunks and a rest.
FileSizes == {CHUNK_SIZE, 20000}

\* config.GAME_SERVER_START_PORT
GAME_SERVER_START_PORT == 9000

Players  == 1..NumPlayers
ClientIds == 1..MaxClients
RoomIds  == 1..(MaxRooms + 1)     \* room_id values a payload can carry; the last one never exists
GameIds  == 1..3                   \* game_id values a payload can carry; the last one never exists
None     == 0                      \* Python None / SQL NULL

VARIABLES
  clients,         \* LobbyServer.clients: client_id -> user (None before AUTH)
  nconn,           \* connections accepted so far (the next client_id)
  pc,              \* client_id -> where that connection's handle_client task is suspended
  frame,           \* client_id -> locals of the handler that is suspended
  games,           \* games table: id -> row
  rooms,           \* rooms table: id -> row
  room_players,    \* room_players table: set of <<room_id, player_id>>
  game_processes,  \* GameServerManager.game_processes: room_id -> child
  procs,           \* every child spawned so far: [room, port, alive, monitored]
  next_port,       \* GameServerManager.next_port
  issued,          \* the ports spawn_game_server calls have taken from next_port, in order
  tasks,           \* broadcast_room_update tasks created by handle_join_room
  wire,            \* client_id -> the frames written to that connection's writer, in order
  nauth,           \* AUTH_REQUESTs read so far
  nreq,            \* other requests read so far
  sweeper,         \* the cleanup_expired_rooms task: [alive, raised, recovered, n_old, closed]
  game_versions,   \* game_versions table: rows in the order of their created_at
  files,           \* the archives under GAMES_DIR: file_path -> [size, sum]
  downloads,       \* downloads table: rows in the order they were inserted
  dl,              \* client_id -> locals of a suspended handle_download_request, and
                   \* whether the connection's transport has been lost
  net,             \* client_id -> the player's NetworkClient and download worker
  dclients,        \* DeveloperServer.clients: client_id -> user (None before AUTH)
  uploads,         \* DeveloperServer.uploads: client_id -> upload_info
  temps,           \* the files under TEMP_DIR: path -> [len, from, open]
  dreply,          \* client_id -> the last response written to that developer connection
  reviews,         \* reviews table: the rows, in the order they were inserted
  player_sessions, \* player_sessions table: token -> row
  now,             \* the clock the server and the database read
  writers,         \* the coroutines about to write frames: [to, msgs, at]
  stream,          \* client_id -> the bytes handed to that connection's transport, in order
  nc,              \* the player's NetworkClient: its caller, its receive thread, its maps
  shutdown         \* GameServerManager.shutdown_all and the stop_game_server calls it gathers

vars == <<clients, nconn, pc, frame, games, rooms, room_players, game_processes,
          procs, next_port, issued, tasks, wire, nauth, nreq, sweeper,
          game_versions, files, downloads, dl, net,
          dclients, uploads, temps, dreply, reviews, player_sessions, now,
          writers, stream, nc, shutdown>>

dbVars   == <<games, rooms, room_players>>
supVars  == <<game_processes, procs, next_port, issued>>
connVars == <<clients, nconn>>
reqVars  == <<nauth, nreq>>
\* State of the parts of the system that the lobby's request handlers never touch.
extVars  == <<sweeper, game_versions, files, downloads, dl, net,
              dclients, uploads, temps, dreply, reviews, player_sessions, now,
              writers, stream, nc, shutdown>>
sideVars == <<writers, stream, nc, shutdown>>
auxVars  == <<reviews, player_sessions, now, sideVars>>
devVars  == <<dclients, uploads, temps, dreply>>
playVars == <<downloads, dl, net>>
archVars == <<game_versions, files>>

\* ------------------------------------------------------------- messages
\* Message(msg_type, payload): the payload fields the handlers below set.
Msg(to, type, room, port, text, cp, players) ==
  [to |-> to, type |-> type, room |-> room, port |-> port, text |-> text,
   cp |-> cp, players |-> players]

create_error_message(to, text) == Msg(to, "ERROR", None, None, text, 0, {})

create_success_message(to, room, port) == Msg(to, "SUCCESS", room, port, "", 0, {})

\* The locals of a suspended handler.  open and sent are kept for handle_start_game:
\* the sessions <<player, client_id>> of the room's members when the room was set
\* playing, and the players a GAME_STARTED has been written for.
NoFrame == [room |-> None, port |-> None, proc |-> None, todo |-> {},
            cp |-> 0, players |-> {}, open |-> {}, sent |-> {}]

\* ------------------------------------------------ catalog store: rooms
\* Column defaults of the rooms table.
rooms_insert(rms, game_id, host_id, max_players) ==
  Append(rms, [game_id |-> game_id, host_id |-> host_id, max_players |-> max_players,
               current_players |-> 0, status |-> "waiting", game_port |-> None])

\* INSERT INTO room_players: the key (room_id, player_id) is unique, room_id
\* references rooms, and the insert bumps the room's current_players.
room_players_insert(rms, rp, room_id, player_id) ==
  IF <<room_id, player_id>> \in rp \/ room_id \notin DOMAIN rms
  THEN [ok |-> FALSE, rooms |-> rms, room_players |-> rp]
  ELSE [ok |-> TRUE,
        rooms |-> [rms EXCEPT ![room_id].current_players = @ + 1],
        room_players |-> rp \cup {<<room_id, player_id>>}]

\* DELETE FROM room_players: every deleted row lowers current_players.
room_players_delete(rms, rp, room_id, player_id) ==
  IF <<room_id, player_id>> \in rp
  THEN [rooms |-> [rms EXCEPT ![room_id].current_players = @ - 1],
        room_players |-> rp \ {<<room_id, player_id>>}]
  ELSE [rooms |-> rms, room_players |-> rp]

get_room_players(rp, room_id) == {m[2] : m \in {x \in rp : x[1] = room_id}}

create_room_explicit_count(rms, rp, game_id, host_id, max_players) ==
  LET ins  == rooms_insert(rms, game_id, host_id, max_players)
      one  == [ins EXCEPT ![Len(ins)].current_players = 1]
      host == room_players_insert(one, rp, Len(one), host_id)
  IN [room_id |-> Len(one), rooms |-> host.rooms, room_players |-> host.room_players]

\* DatabaseManager.create_room: the room row, then the host as its first member.
create_room(rms, rp, game_id, host_id, max_players) ==
  LET ins  == rooms_insert(rms, game_id, host_id, max_players)
      host == room_players_insert(ins, rp, Len(ins), host_id)
  IN [room_id |-> Len(ins), rooms |-> host.rooms, room_players |-> host.room_players]

join_room_conflict_ignored(rms, rp, room_id, player_id) ==
  [room_players_insert(rms, rp, room_id, player_id) EXCEPT !.ok = TRUE]

\* DatabaseManager.join_room: False on IntegrityError.
join_room(rms, rp, room_id, player_id) == room_players_insert(rms, rp, room_id, player_id)

leave_room_whole_room(rms, rp, room_id, player_id) ==
  [rooms |-> IF room_id \in DOMAIN rms THEN [rms EXCEPT ![room_id].current_players = 0] ELSE rms,
   room_players |-> {m \in rp : m[1] # room_id}]

\* DatabaseManager.leave_room.
leave_room(rms, rp, room_id, player_id) == room_players_delete(rms, rp, room_id, player_id)

update_room_status_all_rows(rms, room_id, status, game_port) ==
  [r \in DOMAIN rms |->
     IF game_port # None
     THEN [rms[r] EXCEPT !.status = status, !.game_port = game_port]
     ELSE [rms[r] EXCEPT !.status = status]]

\* DatabaseManager.update_room_status: UPDATE ... WHERE id = ?; game_port is
\* written only when it is truthy.
update_room_status(rms, room_id, status, game_port) ==
  [r \in DOMAIN rms |->
     IF r # room_id THEN rms[r]
     ELSE IF game_port # None
          THEN [rms[r] EXCEPT !.status = status, !.game_port = game_port]
          ELSE [rms[r] EXCEPT !.status = status]]

\* ------------------------------------------------------------ sessions
\* LobbyServer._find_client_by_user_id: the first connected client, in the
\* order the connections were accepted, whose user is user_id.
find_client_by_user_id(cl, user_id) ==
  LET hit == {c \in DOMAIN cl : cl[c] = user_id}
  IN IF hit = {} THEN None ELSE CHOOSE c \in hit : \A d \in hit : c <= d

Idle(c) == c \in DOMAIN clients /\ pc[c] = "idle"

\* A request is read from connection c.
Read(c) == Idle(c) /\ nreq < MaxReq /\ nreq' = nreq + 1 /\ UNCHANGED nauth

ReadAuth(c) == Idle(c) /\ nauth < MaxAuth /\ nauth' = nauth + 1 /\ UNCHANGED nreq

\* Message.write_to_stream on the writer of connection msg.to.
Send(msg) == wire' = [wire EXCEPT ![msg.to] = Append(@, msg)]

\* handle_client writes the handler's response and reads on.
Reply(c, msg) == Send(msg) /\ pc' = [pc EXCEPT ![c] = "idle"]
                 /\ frame' = [frame EXCEPT ![c] = NoFrame]

\* A notification loop that may pass over members whose session is open.
Segments_skip_open(todo) ==
  LET have == {m \in todo : find_client_by_user_id(clients, m) # None}
  IN {[end |-> TRUE, to |-> None, user |-> None, rest |-> {}]} \cup
     {[end |-> FALSE, to |-> find_client_by_user_id(clients, m), user |-> m,
       rest |-> todo \ (skip \cup {m})] : m \in have, skip \in SUBSET todo}

\* One pass of a notification loop up to the await after its next write:
\* members without an open session are passed over, the first member with one
\* is written to.  The rows come back in no stated order.
Segments(todo) ==
  LET have == {m \in todo : find_client_by_user_id(clients, m) # None}
  IN IF have = {}
     THEN {[end |-> TRUE, to |-> None, user |-> None, rest |-> {}]}
     ELSE {[end |-> FALSE, to |-> find_client_by_user_id(clients, m), user |-> m,
            rest |-> todo \ (skip \cup {m})] :
             m \in have, skip \in SUBSET (todo \ have)}

\* The ROOM_UPDATE that broadcast_room_update builds from the rows it reads.
room_update(to, room_id, cp, players) == Msg(to, "ROOM_UPDATE", room_id, None, "", cp, players)

game_started(to, room_id, port) == Msg(to, "GAME_STARTED", room_id, port, "", 0, {})

\* ---------------------------------------------------------------- Init
\* LobbyServer.__init__ and GameServerManager.__init__: no connection, no child.
InitSessions ==
  /\ clients = [c \in {} |-> None]
  /\ nconn = 0
  /\ pc = [c \in ClientIds |-> "idle"]
  /\ frame = [c \in ClientIds |-> NoFrame]
  /\ game_processes = [r \in {} |-> None]
  /\ procs = <<>>
  /\ next_port = GAME_SERVER_START_PORT
  /\ issued = <<>>
  /\ tasks = <<>>
  /\ wire = [c \in {} |-> <<>>]
  /\ nauth = 0
  /\ nreq = 0

\* The store the lobby starts on: an active and an inactive game, no room.
InitGames ==
  games = <<[status |-> "active", current_version |-> 1],
            [status |-> "inactive", current_version |-> 1]>>

InitRooms ==
  /\ rooms = <<>>
  /\ room_players = {}

\* The sweeper task as LobbyServer.start creates it.
InitSweeper ==
  sweeper = [alive |-> TRUE, raised |-> FALSE, recovered |-> FALSE, n_old |-> 0, closed |-> {}]

\* No version row, no archive, no download record, no download being streamed.
NoDownload == [game |-> None, version |-> None, f |-> None, total_sent |-> 0, lost |-> FALSE]

InitArchives ==
  /\ game_versions = <<>>
  /\ files = [p \in {} |-> None]

\* NetworkClient.__init__, and no download worker thread.
NoNet == [inbox |-> <<>>, rx |-> 0, download_in_progress |-> FALSE, download_queue |-> <<>>,
          worker |-> "none", file_size |-> 0, checksum |-> 0, received |-> 0, from |-> None,
          result |-> "none", got_error |-> FALSE]

InitDownloads ==
  /\ downloads = <<>>
  /\ dl = [c \in ClientIds |-> NoDownload]
  /\ net = [c \in ClientIds |-> NoNet]

\* DeveloperServer.__init__: no connection, no upload, an empty TEMP_DIR.
InitDeveloper ==
  /\ dclients = [c \in {} |-> None]
  /\ uploads = [c \in {} |-> None]
  /\ temps = [p \in {} |-> None]
  /\ dreply = [c \in {} |-> None]

\* NetworkClient.__init__ with no request sent and nothing received.
\* sent: the requests send_and_wait has sent; replied: how many of them the
\* server has answered; notes: the notifications the server has sent; socket:
\* the messages the receive thread has still to read.
NoClient == [caller |-> "idle", sent |-> <<>>, replied |-> 0, notes |-> 0,
             response_events |-> {}, set |-> {}, responses |-> <<>>,
             socket |-> <<>>, returned |-> <<>>, on_message |-> <<>>]

\* shutdown_all has not been called.
NoShutdown == [called |-> FALSE, entries |-> {}, stops |-> <<>>, returned |-> FALSE]

\* No coroutine is writing, no byte was written; the player's client and the
\* supervisor's shutdown as constructed.
InitSide ==
  /\ writers = <<>>
  /\ stream = [c \in ClientIds |-> <<>>]
  /\ nc = NoClient
  /\ shutdown = NoShutdown

\* No review yet, no session token issued, the clock at the start of day 0.
InitStore ==
  /\ reviews = <<>>
  /\ player_sessions = <<>>
  /\ now = [day |-> 0, tick |-> 0]
  /\ InitSide

Init ==
  /\ InitSessions
  /\ InitGames
  /\ InitRooms
  /\ InitSweeper
  /\ InitArchives
  /\ InitDownloads
  /\ InitDeveloper
  /\ InitStore

\* -------------------------------------------------------- connections
\* LobbyServer.handle_client, up to its first read.
Connect ==
  /\ nconn < MaxClients
  /\ nconn' = nconn + 1
  /\ clients' = [c \in DOMAIN clients \cup {nconn + 1} |->
                   IF c \in DOMAIN clients THEN clients[c] ELSE None]
  /\ wire' = [c \in DOMAIN wire \cup {nconn + 1} |->
                IF c \in DOMAIN wire THEN wire[c] ELSE <<>>]
  /\ UNCHANGED <<pc, frame, dbVars, supVars, tasks, reqVars, extVars>>

\* LobbyServer.cleanup_client.
cleanup_client(cl, c) == [d \in DOMAIN cl \ {c} |-> cl[d]]

\* The peer closes the connection: read_from_stream raises IncompleteReadError.
Disconnect(c) ==
  /\ Idle(c)
  /\ clients' = cleanup_client(clients, c)
  /\ wire' = cleanup_client(wire, c)
  /\ UNCHANGED <<nconn, pc, frame, dbVars, supVars, tasks, reqVars, extVars>>

\* LobbyServer.handle_auth.  cred = -1: username or password missing;
\* cred = 0: no players row matches; otherwise the id of the matching row.
handle_auth(c, cred) ==
  /\ ReadAuth(c)
  /\ IF cred = -1
     THEN /\ Reply(c, create_error_message(c, "Username and password required"))
          /\ UNCHANGED clients
     ELSE IF cred = 0
     THEN /\ Reply(c, Msg(c, "AUTH_RESPONSE", None, None, "Invalid credentials", 0, {}))
          /\ UNCHANGED clients
     ELSE /\ clients' = [clients EXCEPT ![c] = cred]
          /\ Reply(c, Msg(c, "AUTH_RESPONSE", None, None, "", 0, {cred}))
  /\ UNCHANGED <<nconn, dbVars, supVars, tasks, extVars>>

\* ------------------------------------------------------------- rooms
\* LobbyServer.handle_create_room.  collide: the random room_code equals the
\* code of an existing row, so the INSERT raises and create_room returns None.
handle_create_room(c, game_id, max_players, collide) ==
  /\ Read(c)
  /\ collide => rooms # <<>>
  /\ UNCHANGED <<connVars, games, supVars, tasks, extVars>>
  /\ IF clients[c] = None
     THEN Reply(c, create_error_message(c, "Not authenticated")) /\ UNCHANGED <<rooms, room_players>>
     ELSE IF game_id \notin DOMAIN games \/ games[game_id].status # "active"
     THEN Reply(c, create_error_message(c, "Game not available")) /\ UNCHANGED <<rooms, room_players>>
     ELSE IF collide
     THEN Reply(c, create_error_message(c, "Failed to create room")) /\ UNCHANGED <<rooms, room_players>>
     ELSE LET r == create_room(rooms, room_players, game_id, clients[c], max_players)
          IN /\ Len(rooms) < MaxRooms
             /\ rooms' = r.rooms
             /\ room_players' = r.room_players
             /\ Reply(c, Msg(c, "ROOM_CREATED", r.room_id, None, "", 0, {}))

room_is_full_never(room) == FALSE

\* handle_join_room: room['current_players'] >= room['max_players'].
room_is_full(room) == room.current_players >= room.max_players

\* A handle_join_room that awaits the broadcast before it returns, as
\* handle_leave_room does.
handle_join_room_awaits_broadcast(c, room_id) ==
  /\ Read(c)
  /\ UNCHANGED <<connVars, games, supVars, extVars, tasks>>
  /\ IF \/ clients[c] = None
        \/ room_id \notin DOMAIN rooms
     THEN Reply(c, create_error_message(c, "Room not found"))
          /\ UNCHANGED <<rooms, room_players>>
     ELSE IF \/ rooms[room_id].status # "waiting"
             \/ rooms[room_id].current_players >= rooms[room_id].max_players
             \/ ~join_room(rooms, room_players, room_id, clients[c]).ok
     THEN Reply(c, create_error_message(c, "Room is full"))
          /\ UNCHANGED <<rooms, room_players>>
     ELSE LET r == join_room(rooms, room_players, room_id, clients[c])
          IN /\ rooms' = r.rooms
             /\ room_players' = r.room_players
             /\ \E s \in Segments(get_room_players(r.room_players, room_id)) :
                  IF s.end
                  THEN Reply(c, Msg(c, "ROOM_JOINED", room_id, None, "", 0, {}))
                  ELSE /\ Send(room_update(s.to, room_id, r.rooms[room_id].current_players,
                                           get_room_players(r.room_players, room_id)))
                       /\ pc' = [pc EXCEPT ![c] = "leave_broadcast"]
                       /\ frame' = [frame EXCEPT ![c] =
                            [NoFrame EXCEPT !.room = room_id, !.todo = s.rest,
                               !.cp = r.rooms[room_id].current_players,
                               !.players = get_room_players(r.room_players, room_id)]]

\* LobbyServer.handle_join_room.
handle_join_room(c, room_id) ==
  /\ Read(c)
  /\ UNCHANGED <<connVars, games, supVars, extVars>>
  /\ IF clients[c] = None
     THEN Reply(c, create_error_message(c, "Not authenticated"))
          /\ UNCHANGED <<rooms, room_players, tasks>>
     ELSE IF room_id \notin DOMAIN rooms
     THEN Reply(c, create_error_message(c, "Room not found"))
          /\ UNCHANGED <<rooms, room_players, tasks>>
     ELSE IF rooms[room_id].status # "waiting"
     THEN Reply(c, create_error_message(c, "Room is not accepting players"))
          /\ UNCHANGED <<rooms, room_players, tasks>>
     ELSE IF room_is_full(rooms[room_id])
     THEN Reply(c, create_error_message(c, "Room is full"))
          /\ UNCHANGED <<rooms, room_players, tasks>>
     ELSE LET r == join_room(rooms, room_players, room_id, clients[c])
          IN IF ~r.ok
             THEN Reply(c, create_error_message(c, "Already in room or failed to join"))
                  /\ UNCHANGED <<rooms, room_players, tasks>>
             ELSE /\ rooms' = r.rooms
                  /\ room_players' = r.room_players
                  /\ tasks' = Append(tasks, [room |-> room_id, started |-> FALSE,
                                             todo |-> {}, cp |-> 0, players |-> {}])
                  /\ Reply(c, Msg(c, "ROOM_JOINED", room_id, None, "", 0, {}))

\* A broadcast_room_update task is scheduled for the first time: it reads the
\* room and its players, builds one ROOM_UPDATE and starts writing it.
\* i: its place among the tasks that have not finished.
RemoveAt(seq, i) == SubSeq(seq, 1, i - 1) \o SubSeq(seq, i + 1, Len(seq))

broadcast_room_update(i) ==
  /\ i \in DOMAIN tasks
  /\ LET t == tasks[i]
         cp == IF t.started THEN t.cp ELSE rooms[t.room].current_players
         players == IF t.started THEN t.players ELSE get_room_players(room_players, t.room)
         todo == IF t.started THEN t.todo ELSE players
     IN \E s \in Segments(todo) :
          IF s.end
          THEN tasks' = RemoveAt(tasks, i) /\ UNCHANGED wire
          ELSE /\ Send(room_update(s.to, t.room, cp, players))
               /\ tasks' = [tasks EXCEPT ![i] = [room |-> t.room, started |-> TRUE,
                                                 todo |-> s.rest, cp |-> cp, players |-> players]]
  /\ UNCHANGED <<connVars, pc, frame, dbVars, supVars, reqVars, extVars>>

\* The writes of the broadcast_room_update that handle_leave_room awaits, then
\* its SUCCESS.
LeaveBroadcast(c, room_id, cp, players, todo) ==
  \E s \in Segments(todo) :
    IF s.end
    THEN Reply(c, create_success_message(c, None, None))
    ELSE /\ Send(room_update(s.to, room_id, cp, players))
         /\ pc' = [pc EXCEPT ![c] = "leave_broadcast"]
         /\ frame' = [frame EXCEPT ![c] = [NoFrame EXCEPT !.room = room_id, !.todo = s.rest,
                                                            !.cp = cp, !.players = players]]

\* handle_leave_room: room and room['host_id'] == user['id'].
is_leaving_host(room_id, user_id) ==
  room_id \in DOMAIN rooms /\ rooms[room_id].host_id = user_id

\* LobbyServer.handle_leave_room, up to the first await of its broadcast.  For a
\* room_id with no row, broadcast_room_update subscripts None: the exception
\* leaves handle_client's loop, which cleans the client up and closes.
handle_leave_room(c, room_id) ==
  /\ Read(c)
  /\ UNCHANGED <<nconn, games, supVars, tasks, extVars>>
  /\ IF clients[c] = None
     THEN Reply(c, create_error_message(c, "Not authenticated"))
          /\ UNCHANGED <<clients, rooms, room_players>>
     ELSE LET host == is_leaving_host(room_id, clients[c])
              left == leave_room(rooms, room_players, room_id, clients[c])
              rms  == IF host THEN update_room_status(rooms, room_id, "closed", None)
                      ELSE left.rooms
              rp   == IF host THEN room_players ELSE left.room_players
          IN /\ rooms' = rms
             /\ room_players' = rp
             /\ IF room_id \notin DOMAIN rooms
                THEN /\ clients' = cleanup_client(clients, c)
                     /\ wire' = cleanup_client(wire, c)
                     /\ UNCHANGED <<pc, frame>>
                ELSE /\ UNCHANGED clients
                     /\ LeaveBroadcast(c, room_id, rms[room_id].current_players,
                                       get_room_players(rp, room_id),
                                       get_room_players(rp, room_id))

\* handle_leave_room resumed after the drain of a ROOM_UPDATE.
leave_broadcast(c) ==
  /\ c \in DOMAIN clients
  /\ pc[c] = "leave_broadcast"
  /\ LeaveBroadcast(c, frame[c].room, frame[c].cp, frame[c].players, frame[c].todo)
  /\ UNCHANGED <<connVars, dbVars, supVars, tasks, reqVars, extVars>>

\* -------------------------------------------------------- supervisor
allocate_port_no_advance(np) == [port |-> np, next_port |-> np]

\* GameServerManager.spawn_game_server, under port_lock:
\* port = self.next_port; self.next_port += 1.
allocate_port(np) == [port |-> np, next_port |-> np + 1]

\* The open sessions <<player, client_id>> of the members of room_id.
OpenMembers(room_id) ==
  {s \in get_room_players(room_players, room_id) \X DOMAIN clients : clients[s[2]] = s[1]}

\* The GAME_STARTED loop of handle_start_game, then its SUCCESS.
StartNotify(c, fr, todo) ==
  \E s \in Segments(todo) :
    IF s.end
    THEN Reply(c, create_success_message(c, fr.room, fr.port))
    ELSE /\ Send(game_started(s.to, fr.room, fr.port))
         /\ pc' = [pc EXCEPT ![c] = "notify"]
         /\ frame' = [frame EXCEPT ![c] = [fr EXCEPT !.todo = s.rest,
                                                      !.sent = @ \cup {s.user}]]

not_host_never(room_id, user_id) == FALSE

\* handle_start_game: room['host_id'] != user['id'].
not_host(room_id, user_id) == rooms[room_id].host_id # user_id

\* LobbyServer.handle_start_game up to the await of create_subprocess_exec in
\* spawn_game_server.  exists: game_server.py is at the game's version path.
handle_start_game(c, room_id, exists) ==
  /\ Read(c)
  /\ UNCHANGED <<connVars, dbVars, game_processes, procs, tasks, extVars>>
  /\ IF clients[c] = None
     THEN Reply(c, create_error_message(c, "Not authenticated")) /\ UNCHANGED <<next_port, issued>>
     ELSE IF room_id \notin DOMAIN rooms
     THEN Reply(c, create_error_message(c, "Room not found")) /\ UNCHANGED <<next_port, issued>>
     ELSE IF not_host(room_id, clients[c])
     THEN Reply(c, create_error_message(c, "Only host can start game")) /\ UNCHANGED <<next_port, issued>>
     ELSE IF rooms[room_id].game_id \notin DOMAIN games
     THEN Reply(c, create_error_message(c, "Game not found")) /\ UNCHANGED <<next_port, issued>>
     ELSE LET a == allocate_port(next_port)
          IN /\ next_port' = a.next_port
             /\ issued' = Append(issued, a.port)
             /\ IF ~exists
                THEN Reply(c, create_error_message(c, "Failed to start game server"))
                ELSE /\ pc' = [pc EXCEPT ![c] = "exec"]
                     /\ frame' = [frame EXCEPT ![c] =
                          [NoFrame EXCEPT !.room = room_id, !.port = a.port,
                                          !.players = get_room_players(room_players, room_id)]]
                     /\ UNCHANGED wire

\* spawn_game_server resumed from create_subprocess_exec: either it raised
\* (return None, so ERROR), or the child runs: the supervisor entry is stored,
\* the monitor task is created and the coroutine sleeps 0.5 s.
spawn_game_server_exec(c, ok) ==
  /\ c \in DOMAIN clients
  /\ pc[c] = "exec"
  /\ UNCHANGED <<connVars, dbVars, next_port, issued, tasks, reqVars, extVars>>
  /\ IF ~ok
     THEN Reply(c, create_error_message(c, "Failed to start game server"))
          /\ UNCHANGED <<game_processes, procs>>
     ELSE /\ procs' = Append(procs, [room |-> frame[c].room, port |-> frame[c].port,
                                     alive |-> TRUE, monitored |-> FALSE])
          /\ game_processes' =
               [r \in DOMAIN game_processes \cup {frame[c].room} |->
                  IF r = frame[c].room THEN Len(procs) + 1 ELSE game_processes[r]]
          /\ pc' = [pc EXCEPT ![c] = "sleep"]
          /\ frame' = [frame EXCEPT ![c].proc = Len(procs) + 1]
          /\ UNCHANGED wire

\* spawn_game_server resumed from its sleep returns the port; handle_start_game
\* sets the room playing and starts notifying the players it read before the spawn.
handle_start_game_commit(c) ==
  /\ c \in DOMAIN clients
  /\ pc[c] = "sleep"
  /\ rooms' = update_room_status(rooms, frame[c].room, "playing", frame[c].port)
  /\ StartNotify(c, [frame[c] EXCEPT !.open = OpenMembers(frame[c].room)], frame[c].players)
  /\ UNCHANGED <<connVars, games, room_players, supVars, tasks, reqVars, extVars>>

\* handle_start_game resumed after the drain of a GAME_STARTED.
handle_start_game_notify(c) ==
  /\ c \in DOMAIN clients
  /\ pc[c] = "notify"
  /\ StartNotify(c, frame[c], frame[c].todo)
  /\ UNCHANGED <<connVars, dbVars, supVars, tasks, reqVars, extVars>>

\* A game-server child exits.
child_exit(p) ==
  /\ p \in DOMAIN procs
  /\ procs[p].alive
  /\ procs' = [procs EXCEPT ![p].alive = FALSE]
  /\ UNCHANGED <<connVars, pc, frame, dbVars, game_processes, next_port, issued, tasks, wire, reqVars, extVars>>

\* GameServerManager._monitor_process resumed from proc.communicate().
monitor_process(p) ==
  /\ p \in DOMAIN procs
  /\ ~procs[p].alive
  /\ ~procs[p].monitored
  /\ procs' = [procs EXCEPT ![p].monitored = TRUE]
  /\ game_processes' = [r \in DOMAIN game_processes \ {procs[p].room} |-> game_processes[r]]
  /\ UNCHANGED <<connVars, pc, frame, dbVars, next_port, issued, tasks, wire, reqVars, extVars>>

\* ------------------------------------------------------------ sweeper
\* The UPDATE of LobbyServer.cleanup_expired_rooms.  Rooms are numbered in the
\* order of their created_at, so the rows more than 10 minutes old are the
\* first n_old ones.
close_expired_any_status(rms, n_old) ==
  [r \in DOMAIN rms |->
     IF r <= n_old THEN [rms[r] EXCEPT !.status = "closed"] ELSE rms[r]]

close_expired(rms, n_old) ==
  [r \in DOMAIN rms |->
     IF rms[r].status = "waiting" /\ r <= n_old THEN [rms[r] EXCEPT !.status = "closed"]
     ELSE rms[r]]

\* LobbyServer.cleanup_expired_rooms: one wake-up of the 60 s loop, at a time
\* when n_old rooms are more than 10 minutes old.
cleanup_expired_rooms(n_old) ==
  /\ n_old \in 0..Len(rooms)
  /\ rooms' = close_expired(rooms, n_old)
  /\ UNCHANGED <<connVars, pc, frame, games, room_players, supVars, tasks, wire, reqVars, extVars>>

\* ---------------------------------------------------------------- Next
Next ==
  \/ Connect
  \/ \E c \in ClientIds : Disconnect(c)
  \/ \E c \in ClientIds, cred \in (-1)..NumPlayers : handle_auth(c, cred)
  \/ \E c \in ClientIds, g \in GameIds, n \in 1..MaxSeats, collide \in BOOLEAN :
        handle_create_room(c, g, n, collide)
  \/ \E c \in ClientIds, r \in RoomIds : handle_join_room(c, r)
  \/ \E i \in 1..MaxReq : broadcast_room_update(i)
  \/ \E c \in ClientIds, r \in RoomIds : handle_leave_room(c, r)
  \/ \E c \in ClientIds : leave_broadcast(c)
  \/ \E c \in ClientIds, r \in RoomIds, exists \in BOOLEAN : handle_start_game(c, r, exists)
  \/ \E c \in ClientIds, ok \in BOOLEAN : spawn_game_server_exec(c, ok)
  \/ \E c \in ClientIds : handle_start_game_commit(c)
  \/ \E c \in ClientIds : handle_start_game_notify(c)
  \/ \E p \in 1..MaxReq : child_exit(p)
  \/ \E p \in 1..MaxReq : monitor_process(p)
  \/ \E n \in 0..MaxRooms : cleanup_expired_rooms(n)

Spec == Init /\ [][Next]_vars

\* ============================================ the sweeper on its own
\* The sweeper reads and writes nothing but the rooms table, so its ticks are
\* examined over every table of up to MaxSweepRooms rooms, in any status.
SweepStatuses == {"waiting", "playing", "closed"}

\* A rooms row as create_room leaves it, moved to status st by update_room_status.
SweepRow(st) ==
  [game_id |-> 1, host_id |-> 1, max_players |-> MaxSeats, current_players |-> 1,
   status |-> st, game_port |-> IF st = "playing" THEN GAME_SERVER_START_PORT ELSE None]

SweeperInit ==
  /\ InitSessions
  /\ InitGames
  /\ InitSweeper
  /\ InitArchives
  /\ InitDownloads
  /\ InitDeveloper
  /\ InitStore
  /\ \E n \in 0..MaxSweepRooms : \E sts \in [1..n -> SweepStatuses] :
       /\ rooms = [r \in 1..n |-> SweepRow(sts[r])]
       /\ room_players = {<<r, 1>> : r \in 1..n}

\* Time passes: one more room (the oldest not yet so) is over 10 minutes old.
room_expires ==
  /\ sweeper.n_old < Len(rooms)
  /\ sweeper' = [sweeper EXCEPT !.n_old = @ + 1]
  /\ UNCHANGED <<connVars, pc, frame, dbVars, supVars, tasks, wire, reqVars,
                 archVars, playVars, devVars, auxVars>>

\* One iteration of the while True loop of LobbyServer.cleanup_expired_rooms:
\* the sleep ends and db.execute either commits the UPDATE or raises (and rolls
\* back); the except clause is inside the loop, so the task sleeps again.
cleanup_expired_rooms_tick(raised) ==
  /\ sweeper.alive
  /\ rooms' = IF raised THEN rooms ELSE close_expired(rooms, sweeper.n_old)
  /\ sweeper' = [sweeper EXCEPT
                   !.alive = TRUE,
                   !.raised = raised,
                   !.recovered = sweeper.raised /\ ~raised,
                   !.closed = {r \in DOMAIN rooms : rooms[r].status # "closed" /\ rooms'[r].status = "closed"}]
  /\ UNCHANGED <<connVars, pc, frame, games, room_players, supVars, tasks, wire, reqVars,
                 archVars, playVars, devVars, auxVars>>

SweeperNext ==
  \/ room_expires
  \/ \E raised \in BOOLEAN : cleanup_expired_rooms_tick(raised)

SweeperSpec == SweeperInit /\ [][SweeperNext]_vars

\* ======================================================== downloads
\* bytes.hex() writes two characters for every byte; bytes.fromhex() reads
\* one byte from every two characters.
hex(n) == 2 * n

fromhex(k) == k \div 2

Min(a, b) == IF a <= b THEN a ELSE b

\* The messages of handle_download_request.  data is the length of the hex text.
download_meta(to, game_id, version, file_size, checksum) ==
  [to |-> to, type |-> "DOWNLOAD_META", game_id |-> game_id, version |-> version,
   file_size |-> file_size, checksum |-> checksum]

\* from names the archive the bytes were read from.
download_chunk(to, data, from, offset) ==
  [to |-> to, type |-> "DOWNLOAD_CHUNK", data |-> data, from |-> from, offset |-> offset]

download_complete(to, bytes_sent) ==
  [to |-> to, type |-> "DOWNLOAD_COMPLETE", success |-> TRUE, bytes_sent |-> bytes_sent]

\* DatabaseManager.get_game_version: the row id, None when there is none.
get_game_version(gv, game_id, version) ==
  LET hit == {i \in DOMAIN gv : gv[i].game_id = game_id /\ gv[i].version = version}
  IN IF hit = {} THEN None ELSE CHOOSE i \in hit : TRUE

\* DatabaseManager.get_latest_version: ORDER BY created_at DESC LIMIT 1.
get_latest_version(gv, game_id) ==
  LET hit == {i \in DOMAIN gv : gv[i].game_id = game_id}
  IN IF hit = {} THEN None ELSE CHOOSE i \in hit : \A j \in hit : j <= i

\* DatabaseManager.increment_download_count.
increment_download_count(gms, game_id) ==
  [g \in DOMAIN gms |->
     IF g = game_id THEN [gms[g] EXCEPT !.download_count = @ + 1] ELSE gms[g]]

\* DatabaseManager.record_download: two statements, each committed by execute.
\* fault names the statement that raises: "insert", "count" or "none".
record_download(gms, dls, game_id, player_id, version, fault) ==
  IF fault = "insert"
  THEN [raised |-> TRUE, games |-> gms, downloads |-> dls]
  ELSE LET ins == Append(dls, [game_id |-> game_id, player_id |-> player_id, version |-> version])
       IN IF fault = "count"
          THEN [raised |-> TRUE, games |-> gms, downloads |-> ins]
          ELSE [raised |-> FALSE, games |-> increment_download_count(gms, game_id), downloads |-> ins]

\* handle_client's finally after a write raised: the connection is dropped.
Abort(c) ==
  /\ clients' = cleanup_client(clients, c)
  /\ wire' = cleanup_client(wire, c)
  /\ pc' = [pc EXCEPT ![c] = "idle"]
  /\ dl' = [dl EXCEPT ![c] = NoDownload]

\* LobbyServer.handle_download_request up to the await in the write of
\* DOWNLOAD_META.  version = None asks for the latest version.
handle_download_request(c, game_id, version) ==
  /\ Read(c)
  /\ net[c].inbox = <<[game_id |-> game_id, version |-> version]>>
  /\ net' = [net EXCEPT ![c].inbox = <<>>]
  /\ UNCHANGED <<nconn, clients, dbVars, supVars, tasks, sweeper, devVars, auxVars, archVars, downloads>>
  /\ LET row == IF version # None THEN get_game_version(game_versions, game_id, version)
                ELSE get_latest_version(game_versions, game_id)
     IN IF clients[c] = None
        THEN Reply(c, create_error_message(c, "Not authenticated")) /\ UNCHANGED dl
        ELSE IF game_id \notin DOMAIN games \/ games[game_id].status # "active"
        THEN Reply(c, create_error_message(c, "Game not available")) /\ UNCHANGED dl
        ELSE IF row = None
        THEN Reply(c, create_error_message(c, "Version not found")) /\ UNCHANGED dl
        ELSE IF game_versions[row].file_path \notin DOMAIN files
        THEN Reply(c, create_error_message(c, "Game file not found on server")) /\ UNCHANGED dl
        ELSE /\ Send(download_meta(c, game_id, game_versions[row].version,
                                   game_versions[row].file_size, game_versions[row].checksum))
             /\ pc' = [pc EXCEPT ![c] = "dl_meta"]
             /\ dl' = [dl EXCEPT ![c] = [game |-> game_id, version |-> game_versions[row].version,
                                         f |-> game_versions[row].file_path,
                                         total_sent |-> 0, lost |-> FALSE]]
             /\ UNCHANGED frame

\* The transport of a connection that is streaming a download is lost.
connection_lost(c) ==
  /\ c \in DOMAIN clients
  /\ pc[c] \in {"dl_meta", "dl_chunk"}
  /\ ~dl[c].lost
  /\ dl' = [dl EXCEPT ![c].lost = TRUE]
  /\ UNCHANGED <<connVars, pc, frame, dbVars, supVars, tasks, wire, reqVars, sweeper, devVars, auxVars,
                 archVars, downloads, net>>

\* handle_download_request from one await of a write to the next, or to the write
\* of the handler's response by handle_client.  drain_raises: the awaited drain
\* raises because the transport was lost; fault: "io" when open or read raises,
\* "insert" or "count" when that statement of record_download raises.
\* On a lost transport every write raises, also the write of the ERROR.
download_stream(c, fault, drain_raises) ==
  /\ c \in DOMAIN clients
  /\ pc[c] \in {"dl_meta", "dl_chunk"}
  /\ drain_raises => dl[c].lost
  /\ UNCHANGED <<nconn, frame, rooms, room_players, supVars, tasks, reqVars, sweeper, devVars, auxVars, archVars, net>>
  /\ LET d == dl[c]
         f == IF pc[c] = "dl_meta" THEN files[d.f] ELSE d.f
         n == Min(CHUNK_SIZE, f.size - d.total_sent)
     IN /\ fault \in {"insert", "count"} => n = 0 /\ ~drain_raises
        /\ IF drain_raises
           THEN Abort(c) /\ UNCHANGED <<games, downloads>>
           ELSE IF fault = "io"
           THEN /\ UNCHANGED <<games, downloads>>
                /\ IF d.lost THEN Abort(c)
                   ELSE /\ Reply(c, create_error_message(c, "Download failed"))
                        /\ dl' = [dl EXCEPT ![c] = NoDownload]
                        /\ UNCHANGED clients
           ELSE IF n > 0
           THEN /\ UNCHANGED <<games, downloads>>
                /\ IF d.lost THEN Abort(c)
                   ELSE /\ Send(download_chunk(c, hex(n), f.sum, d.total_sent))
                        /\ dl' = [dl EXCEPT ![c].f = f, ![c].total_sent = @ + n]
                        /\ pc' = [pc EXCEPT ![c] = "dl_chunk"]
                        /\ UNCHANGED clients
           ELSE LET rec == record_download(games, downloads, d.game, clients[c], d.version, fault)
                IN /\ games' = rec.games
                   /\ downloads' = rec.downloads
                   /\ IF d.lost THEN Abort(c)
                      ELSE /\ Reply(c, IF rec.raised
                                       THEN create_error_message(c, "Download failed")
                                       ELSE download_complete(c, d.total_sent))
                           /\ dl' = [dl EXCEPT ![c] = NoDownload]
                           /\ UNCHANGED clients

\* ------------------------------------------------- the player's client
\* The SHA-256 the client computes over the file it wrote: len bytes read from
\* the archive `from`.  An archive is named by its checksum, which in this
\* model is its size, so the file is that archive exactly when len = from.
Corrupt == -1

calculate_checksum(from, len) == IF from = len THEN from ELSE Corrupt

\* DownloadManager.download_game up to the return of socket.sendall.
download_game(c, game_id, version) ==
  /\ c \in DOMAIN clients
  /\ nreq < MaxDownloads
  /\ net[c].worker = "none"
  /\ net[c].inbox = <<>>
  /\ net' = [net EXCEPT ![c].inbox = <<[game_id |-> game_id, version |-> version]>>, ![c].worker = "sending",
                        ![c].result = "none", ![c].got_error = FALSE]
  /\ UNCHANGED <<connVars, pc, frame, dbVars, supVars, tasks, wire, reqVars, sweeper, devVars, auxVars,
                 archVars, downloads, dl>>

\* NetworkClient.send_message after sendall: download_in_progress is set, and
\* download_game starts the worker thread.
download_started(c) ==
  /\ net[c].worker = "sending"
  /\ net' = [net EXCEPT ![c].download_in_progress = TRUE, ![c].worker = "meta"]
  /\ UNCHANGED <<connVars, pc, frame, dbVars, supVars, tasks, wire, reqVars, sweeper, devVars, auxVars,
                 archVars, downloads, dl>>

\* NetworkClient._receive_loop reads the next message of the connection and
\* NetworkClient._handle_received_message routes it.  No send_and_wait is
\* pending, so a message that is not put in download_queue is a notification.
handle_received_message(c) ==
  /\ c \in DOMAIN wire
  /\ net[c].rx < Len(wire[c])
  /\ LET m == wire[c][net[c].rx + 1]
     IN IF m.type \in {"DOWNLOAD_META", "DOWNLOAD_CHUNK", "DOWNLOAD_COMPLETE"}
        THEN net' = [net EXCEPT ![c].rx = @ + 1,
                                ![c].download_queue = Append(@, m),
                                ![c].download_in_progress =
                                   IF m.type = "DOWNLOAD_COMPLETE" THEN FALSE ELSE @]
        ELSE IF m.type = "ERROR" /\ net[c].download_in_progress
        THEN net' = [net EXCEPT ![c].rx = @ + 1,
                                ![c].download_queue = Append(@, m),
                                ![c].download_in_progress = FALSE,
                                ![c].got_error = net[c].worker # "none"]
        ELSE net' = [net EXCEPT ![c].rx = @ + 1]
  /\ UNCHANGED <<connVars, pc, frame, dbVars, supVars, tasks, wire, reqVars, sweeper, devVars, auxVars,
                 archVars, downloads, dl>>

\* DownloadManager._wait_for_message: a message of another type is put back at
\* the end of the queue and the wait returns None, as it does on a timeout.
\* msg is <<>> for None and <<m>> for the message m.
wait_for_message(q, msg_type, timeout) ==
  IF timeout THEN [msg |-> <<>>, queue |-> q]
  ELSE IF Head(q).type \in {msg_type, "ERROR"} THEN [msg |-> <<Head(q)>>, queue |-> Tail(q)]
  ELSE [msg |-> <<>>, queue |-> Append(Tail(q), Head(q))]

Fail(n) == [n EXCEPT !.worker = "none", !.result = "failed"]

\* DownloadManager._download_worker from one _wait_for_message to the next.
\* timeout: the wait ends with the queue still empty.
download_worker(c, timeout) ==
  /\ net[c].worker \in {"meta", "chunks", "complete"}
  /\ timeout <=> net[c].download_queue = <<>>
  /\ UNCHANGED <<connVars, pc, frame, dbVars, supVars, tasks, wire, reqVars, sweeper, devVars, auxVars,
                 archVars, downloads, dl>>
  /\ LET n == net[c]
         w == wait_for_message(n.download_queue,
                               CASE n.worker = "meta" -> "DOWNLOAD_META"
                                 [] n.worker = "chunks" -> "DOWNLOAD_CHUNK"
                                 [] OTHER -> "DOWNLOAD_COMPLETE",
                               timeout)
         q == [n EXCEPT !.download_queue = w.queue]
     IN IF n.worker = "meta"
        THEN IF w.msg = <<>> \/ w.msg[1].type = "ERROR"
             THEN net' = [net EXCEPT ![c] = Fail(q)]
             ELSE net' = [net EXCEPT ![c] =
                            [q EXCEPT !.file_size = w.msg[1].file_size, !.checksum = w.msg[1].checksum,
                                      !.received = 0, !.from = None,
                                      !.worker = IF w.msg[1].file_size > 0 THEN "chunks" ELSE "complete"]]
        ELSE IF n.worker = "chunks"
        THEN IF w.msg = <<>> \/ w.msg[1].type = "ERROR"
             THEN net' = [net EXCEPT ![c] = Fail(q)]
             ELSE LET got == n.received + fromhex(w.msg[1].data)
                  IN net' = [net EXCEPT ![c] =
                               [q EXCEPT !.received = got,
                                         !.from = IF n.received = 0 \/ n.from = w.msg[1].from
                                                  THEN w.msg[1].from ELSE Corrupt,
                                         !.worker = IF got < n.file_size THEN "chunks" ELSE "complete"]]
        ELSE net' = [net EXCEPT ![c] =
                       [q EXCEPT !.worker = "none",
                                 !.result = IF calculate_checksum(n.from, n.received) = n.checksum
                                            THEN "ok" ELSE "failed"]]

\* One connection is open, authenticated as player 1; a download is streamed
\* on the connection that asked for it and involves no other connection.
\* The archives a download can find: a version row of an active game whose
\* archive is missing, is the uploaded one, or was replaced after the row was
\* written (a later upload of the same version moves its archive to the same
\* file_path while the row keeps its file_size and checksum).
DownloadInit ==
  /\ clients = [c \in {1} |-> 1]
  /\ nconn = MaxClients
  /\ wire = [c \in {1} |-> <<>>]
  /\ pc = [c \in ClientIds |-> "idle"]
  /\ frame = [c \in ClientIds |-> NoFrame]
  /\ game_processes = [r \in {} |-> None]
  /\ procs = <<>>
  /\ next_port = GAME_SERVER_START_PORT
  /\ issued = <<>>
  /\ tasks = <<>>
  /\ nauth = 0
  /\ nreq = 0
  /\ InitRooms
  /\ InitSweeper
  /\ InitDownloads
  /\ InitDeveloper
  /\ InitStore
  /\ games = <<[status |-> "active", current_version |-> 1, download_count |-> 0],
               [status |-> "inactive", current_version |-> 1, download_count |-> 0]>>
  /\ \E rs \in FileSizes, fs \in FileSizes \cup {None} :
       /\ game_versions = <<[game_id |-> 1, version |-> 1, file_path |-> <<1, 1>>,
                             file_size |-> rs, checksum |-> rs]>>
       /\ files = [p \in (IF fs = None THEN {} ELSE {<<1, 1>>}) |-> [size |-> fs, sum |-> fs]]

DownloadNext ==
  \/ \E c \in ClientIds, g \in {1}, v \in None..2 : handle_download_request(c, g, v)
  \/ \E c \in ClientIds : connection_lost(c)
  \/ \E c \in ClientIds, fault \in {"none", "io", "insert", "count"}, dr \in BOOLEAN :
       download_stream(c, fault, dr)
  \/ \E c \in ClientIds, g \in {1}, v \in None..2 : download_game(c, g, v)
  \/ \E c \in ClientIds : download_started(c)
  \/ \E c \in ClientIds : handle_received_message(c)
  \/ \E c \in ClientIds, timeout \in BOOLEAN : download_worker(c, timeout)

DownloadSpec == DownloadInit /\ [][DownloadNext]_vars

\* ======================================================== developer uploads
Developers == 1..NumDevelopers

DevClientIds == 1..MaxDevClients

Names == 1..NumNames

Versions == 1..NumVersions

\* The archives a developer holds: one of one chunk and one of two chunks.
\* An archive is named by its checksum, which is its size.
ArchiveSizes == {CHUNK_SIZE, 2 * CHUNK_SIZE}

NoReply == [type |-> "none", error |-> ""]

\* handle_client: the response of process_message is written to the connection.
Respond(c, type, error) == dreply' = [dreply EXCEPT ![c] = [type |-> type, error |-> error]]

RespondError(c, error) == Respond(c, "ERROR", error)

\* handle_client: one message other than AUTH_REQUEST is read from an open connection.
DevRead(c) == c \in DOMAIN dclients /\ nreq < MaxDevReq /\ nreq' = nreq + 1 /\ UNCHANGED nauth

lobbyVars == <<clients, nconn, pc, frame, rooms, room_players, supVars, tasks, wire,
               sweeper, playVars, auxVars>>

Without(f, k) == [x \in DOMAIN f \ {k} |-> f[x]]

With(f, k, v) == [x \in DOMAIN f \cup {k} |-> IF x = k THEN v ELSE f[x]]

\* DeveloperServer.handle_client up to its first read.  Connections are
\* numbered in the order they are accepted.
developer_connect ==
  LET client_id == Cardinality(DOMAIN dreply) + 1
  IN /\ client_id <= MaxDevClients
     /\ dclients' = With(dclients, client_id, None)
     /\ dreply' = With(dreply, client_id, NoReply)
     /\ UNCHANGED <<lobbyVars, games, archVars, reqVars, uploads, temps>>

\* DeveloperServer.handle_client: the read raised, the finally block runs.
developer_disconnect(c) ==
  /\ c \in DOMAIN dclients
  /\ dclients' = Without(dclients, c)
  /\ UNCHANGED <<lobbyVars, games, archVars, reqVars, uploads, temps, dreply>>

\* DeveloperServer.handle_auth.  developer = None: the credentials are wrong.
developer_handle_auth(c, developer) ==
  /\ c \in DOMAIN dclients
  /\ nauth < MaxDevAuth
  /\ nauth' = nauth + 1
  /\ dclients' = IF developer = None THEN dclients ELSE [dclients EXCEPT ![c] = developer]
  /\ Respond(c, "AUTH_RESPONSE", IF developer = None THEN "Invalid credentials" ELSE "")
  /\ UNCHANGED <<lobbyVars, games, archVars, nreq, uploads, temps>>

\* The games table keeps name unique.
unique_game_name(gms, name) == \A g \in DOMAIN gms : gms[g].name # name

\* The game_versions table keeps (game_id, version) unique.
unique_game_version(gv, game_id, version) ==
  \A i \in DOMAIN gv : ~(gv[i].game_id = game_id /\ gv[i].version = version)

create_game_unchecked(gms, name, developer_id, version) ==
  [game_id |-> Len(gms) + 1,
   games |-> Append(gms, [name |-> name, developer_id |-> developer_id, status |-> "active",
                          current_version |-> version, download_count |-> 0])]

\* DatabaseManager.create_game: the new id, None on IntegrityError.
create_game(gms, name, developer_id, version) ==
  IF unique_game_name(gms, name)
  THEN [game_id |-> Len(gms) + 1,
        games |-> Append(gms, [name |-> name, developer_id |-> developer_id, status |-> "active",
                               current_version |-> version, download_count |-> 0])]
  ELSE [game_id |-> None, games |-> gms]

\* DatabaseManager.add_game_version: the table afterwards; on IntegrityError
\* nothing is inserted.
add_game_version(gv, game_id, version, file_path, file_size, checksum) ==
  IF unique_game_version(gv, game_id, version)
  THEN Append(gv, [game_id |-> game_id, version |-> version, file_path |-> file_path,
                   file_size |-> file_size, checksum |-> checksum])
  ELSE gv

\* open(temp_file, 'wb') for a new entry of self.uploads: the file is created
\* or truncated.  The file object of the entry it replaces loses its last
\* reference and is closed; its file stays in TEMP_DIR.
open_temp(c, temp_file) ==
  LET dropped == IF c \in DOMAIN uploads /\ uploads[c].temp_file \in DOMAIN temps
                 THEN [temps EXCEPT ![uploads[c].temp_file].open = FALSE]
                 ELSE temps
  IN With(dropped, temp_file, [len |-> 0, from |-> None, open |-> TRUE])

\* DeveloperServer.handle_upload_start.
handle_upload_start(c, name, version, file_size, checksum) ==
  /\ DevRead(c)
  /\ UNCHANGED <<lobbyVars, games, archVars, dclients>>
  /\ IF dclients[c] = None
     THEN RespondError(c, "Not authenticated") /\ UNCHANGED <<uploads, temps>>
     ELSE IF name = None \/ file_size = None \/ checksum = None
     THEN RespondError(c, "Missing required fields") /\ UNCHANGED <<uploads, temps>>
     ELSE IF ~unique_game_name(games, name)
     THEN RespondError(c, "Game name already exists") /\ UNCHANGED <<uploads, temps>>
     ELSE LET temp_file == <<c, "new", name, None>>
          IN /\ temps' = open_temp(c, temp_file)
             /\ uploads' = With(uploads, c,
                  [mode |-> "new", game_id |-> None, name |-> name, version |-> version,
                   file_size |-> file_size, checksum |-> checksum, temp_file |-> temp_file,
                   received_bytes |-> 0])
             /\ Respond(c, "UPLOAD_READY", "")

\* DeveloperServer.handle_update_game.
handle_update_game(c, game_id, new_version, file_size, checksum) ==
  /\ DevRead(c)
  /\ UNCHANGED <<lobbyVars, games, archVars, dclients>>
  /\ IF dclients[c] = None
     THEN RespondError(c, "Not authenticated") /\ UNCHANGED <<uploads, temps>>
     ELSE IF game_id \notin DOMAIN games \/ games[game_id].developer_id # dclients[c]
     THEN RespondError(c, "Game not found or not owned by you")
          /\ UNCHANGED <<uploads, temps>>
     ELSE IF file_size = None \/ checksum = None
     THEN RespondError(c, "File info required") /\ UNCHANGED <<uploads, temps>>
     ELSE LET temp_file == <<c, "update", game_id, new_version>>
          IN /\ temps' = open_temp(c, temp_file)
             /\ uploads' = With(uploads, c,
                  [mode |-> "update", game_id |-> game_id, name |-> games[game_id].name,
                   version |-> new_version, file_size |-> file_size, checksum |-> checksum,
                   temp_file |-> temp_file, received_bytes |-> 0])
             /\ Respond(c, "UPLOAD_READY", "")

\* file_handle.write(data): the bytes of the file all come from one archive, or
\* the file is a mixture that is no archive.
write(f, data, from) ==
  [f EXCEPT !.len = @ + data,
            !.from = IF f.len = 0 \/ f.from = from THEN from ELSE Corrupt]

\* DeveloperServer.handle_upload_chunk.  data_hex is the length of the hex
\* text, from names the archive the bytes were taken from.
handle_upload_chunk(c, data_hex, from) ==
  /\ DevRead(c)
  /\ UNCHANGED <<lobbyVars, games, archVars, dclients>>
  /\ IF c \notin DOMAIN uploads
     THEN RespondError(c, "No upload in progress") /\ UNCHANGED <<uploads, temps>>
     ELSE IF data_hex = 0
     THEN RespondError(c, "No data in chunk") /\ UNCHANGED <<uploads, temps>>
     ELSE LET data == fromhex(data_hex)
              upload == uploads[c]
          IN /\ temps' = [temps EXCEPT ![upload.temp_file] = write(@, data, from)]
             /\ uploads' = [uploads EXCEPT ![c].received_bytes = @ + data]
             /\ Respond(c, "SUCCESS", "")

\* DeveloperServer.handle_upload_complete.  fault names the step of the
\* finalization that raises: "move" (making the version directory or moving
\* the archive into it), "extract" (unpacking the moved archive) or "none".
handle_upload_complete(c, fault) ==
  /\ DevRead(c)
  /\ UNCHANGED <<lobbyVars, dclients>>
  /\ IF dclients[c] = None
     THEN RespondError(c, "Not authenticated")
          /\ UNCHANGED <<games, archVars, uploads, temps>>
     ELSE IF c \notin DOMAIN uploads
     THEN RespondError(c, "No upload in progress")
          /\ UNCHANGED <<games, archVars, uploads, temps>>
     ELSE LET upload == uploads[c]
              temp == temps[upload.temp_file]
              received_checksum == calculate_checksum(temp.from, temp.len)
              made == IF upload.mode = "update"
                      THEN [game_id |-> upload.game_id, games |-> games]
                      ELSE create_game(games, upload.name, dclients[c], upload.version)
              final_path == <<made.game_id, upload.version>>
          IN /\ uploads' = Without(uploads, c)
             /\ IF received_checksum # upload.checksum
                THEN /\ temps' = Without(temps, upload.temp_file)
                     /\ RespondError(c, "Checksum mismatch - file corrupted")
                     /\ UNCHANGED <<games, archVars>>
                ELSE IF upload.mode = "update"
                        /\ (upload.game_id \notin DOMAIN games
                            \/ games[upload.game_id].developer_id # dclients[c])
                THEN /\ temps' = Without(temps, upload.temp_file)
                     /\ RespondError(c, "Game not found or not owned by you")
                     /\ UNCHANGED <<games, archVars>>
                ELSE IF made.game_id = None
                THEN /\ temps' = Without(temps, upload.temp_file)
                     /\ RespondError(c, "Failed to create game entry")
                     /\ UNCHANGED <<games, archVars>>
                ELSE IF fault = "move"
                THEN /\ games' = made.games
                     /\ temps' = [temps EXCEPT ![upload.temp_file].open = FALSE]
                     /\ RespondError(c, "Upload failed")
                     /\ UNCHANGED archVars
                ELSE /\ games' = made.games
                     /\ temps' = Without(temps, upload.temp_file)
                     /\ files' = With(files, final_path,
                                      [size |-> temp.len, sum |-> received_checksum])
                     /\ IF fault = "extract"
                        THEN /\ RespondError(c, "Upload failed")
                             /\ UNCHANGED game_versions
                        ELSE /\ game_versions' = add_game_version(game_versions, made.game_id,
                                   upload.version, final_path, upload.file_size, upload.checksum)
                             /\ Respond(c, "UPLOAD_SUCCESS", "")

\* DatabaseManager.update_game_status.
update_game_status(gms, game_id, status) ==
  [g \in DOMAIN gms |-> IF g = game_id THEN [gms[g] EXCEPT !.status = status] ELSE gms[g]]

handle_remove_game_any_owner(c, game_id) ==
  /\ DevRead(c)
  /\ UNCHANGED <<lobbyVars, archVars, dclients, uploads, temps>>
  /\ IF dclients[c] = None
     THEN RespondError(c, "Not authenticated") /\ UNCHANGED games
     ELSE IF game_id \notin DOMAIN games
     THEN RespondError(c, "Game not found or not owned by you") /\ UNCHANGED games
     ELSE /\ games' = update_game_status(games, game_id, "inactive")
          /\ Respond(c, "REMOVE_SUCCESS", "")

\* DeveloperServer.handle_remove_game.
handle_remove_game(c, game_id) ==
  /\ DevRead(c)
  /\ UNCHANGED <<lobbyVars, archVars, dclients, uploads, temps>>
  /\ IF dclients[c] = None
     THEN RespondError(c, "Not authenticated") /\ UNCHANGED games
     ELSE IF game_id \notin DOMAIN games \/ games[game_id].developer_id # dclients[c]
     THEN RespondError(c, "Game not found or not owned by you") /\ UNCHANGED games
     ELSE /\ games' = update_game_status(games, game_id, "inactive")
          /\ Respond(c, "REMOVE_SUCCESS", "")

\* DeveloperServer.handle_my_games: reads the games table only.
handle_my_games(c) ==
  /\ DevRead(c)
  /\ UNCHANGED <<lobbyVars, games, archVars, dclients, uploads, temps>>
  /\ IF dclients[c] = None
     THEN RespondError(c, "Not authenticated")
     ELSE Respond(c, "MY_GAMES_RESPONSE", "")

\* A store that holds one game of developer 1, uploaded as version 1 from the
\* one-chunk archive.
UploadInit ==
  /\ InitSessions
  /\ InitRooms
  /\ InitSweeper
  /\ InitDownloads
  /\ InitDeveloper
  /\ InitStore
  /\ games = <<[name |-> 1, developer_id |-> 1, status |-> "active", current_version |-> 1,
                download_count |-> 0]>>
  /\ game_versions = <<[game_id |-> 1, version |-> 1, file_path |-> <<1, 1>>,
                        file_size |-> CHUNK_SIZE, checksum |-> CHUNK_SIZE]>>
  /\ files = [p \in {<<1, 1>>} |-> [size |-> CHUNK_SIZE, sum |-> CHUNK_SIZE]]

UploadNext ==
  \/ developer_connect
  \/ \E c \in DevClientIds : developer_disconnect(c)
  \/ \E c \in DevClientIds, developer \in Developers \cup {None} : developer_handle_auth(c, developer)
  \/ \E c \in DevClientIds, name \in Names \cup {None}, version \in Versions,
        file_size \in ArchiveSizes \cup {None}, checksum \in ArchiveSizes \cup {None} :
       handle_upload_start(c, name, version, file_size, checksum)
  \/ \E c \in DevClientIds, game_id \in GameIds, new_version \in Versions,
        file_size \in ArchiveSizes \cup {None}, checksum \in ArchiveSizes \cup {None} :
       handle_update_game(c, game_id, new_version, file_size, checksum)
  \/ \E c \in DevClientIds, data_hex \in {0, hex(CHUNK_SIZE)}, from \in ArchiveSizes :
       handle_upload_chunk(c, data_hex, from)
  \/ \E c \in DevClientIds, fault \in {"none", "move", "extract"} :
       handle_upload_complete(c, fault)
  \/ \E c \in DevClientIds, game_id \in GameIds : handle_remove_game(c, game_id)
  \/ \E c \in DevClientIds : handle_my_games(c)

UploadSpec == UploadInit /\ [][UploadNext]_vars

\* -------------------------------------------------- concurrent uploads
RaceClientIds == 1..NumRaceClients

\* The store of UploadInit with every developer connected and authenticated,
\* developer d on connection d, and connection 1 past the UPLOAD_START of the
\* one-chunk archive under the free name.
UploadRaceInit ==
  /\ InitSessions
  /\ InitStore
  /\ InitRooms
  /\ InitSweeper
  /\ InitDownloads
  /\ games = <<[name |-> 1, developer_id |-> 1, status |-> "active", current_version |-> 1,
                download_count |-> 0]>>
  /\ game_versions = <<[game_id |-> 1, version |-> 1, file_path |-> <<1, 1>>,
                        file_size |-> CHUNK_SIZE, checksum |-> CHUNK_SIZE]>>
  /\ files = [p \in {<<1, 1>>} |-> [size |-> CHUNK_SIZE, sum |-> CHUNK_SIZE]]
  /\ dclients = [c \in RaceClientIds |-> c]
  /\ uploads = [c \in {1} |->
                  [mode |-> "new", game_id |-> None, name |-> NumNames, version |-> 1,
                   file_size |-> CHUNK_SIZE, checksum |-> CHUNK_SIZE,
                   temp_file |-> <<1, "new", NumNames, None>>, received_bytes |-> 0]]
  /\ temps = [p \in {<<1, "new", NumNames, None>>} |-> [len |-> 0, from |-> None, open |-> TRUE]]
  /\ dreply = [c \in RaceClientIds |->
                 IF c = 1 THEN [type |-> "UPLOAD_READY", error |-> ""]
                 ELSE [type |-> "AUTH_RESPONSE", error |-> ""]]

UploadRaceNext ==
  \/ \E c \in RaceClientIds, name \in Names, version \in Versions :
       handle_upload_start(c, name, version, CHUNK_SIZE, CHUNK_SIZE)
  \/ \E c \in RaceClientIds, from \in ArchiveSizes : handle_upload_chunk(c, hex(CHUNK_SIZE), from)
  \/ \E c \in RaceClientIds, fault \in {"none", "move", "extract"} :
       handle_upload_complete(c, fault)

UploadRaceSpec == UploadRaceInit /\ [][UploadRaceNext]_vars


\* ------------------------------------------------------- the catalog
get_all_games(gms) == DOMAIN gms

\* DatabaseManager.get_active_games: the ids of the rows with status 'active'.
get_active_games(gms) == {g \in DOMAIN gms : gms[g].status = "active"}

game_list_response(to, gms) == [to |-> to, type |-> "GAME_LIST_RESPONSE", games |-> gms]

\* LobbyServer.handle_game_list.
handle_game_list(c) ==
  /\ Read(c)
  /\ Reply(c, game_list_response(c, get_active_games(games)))
  /\ UNCHANGED <<nconn, clients, dbVars, supVars, tasks, extVars>>

\* The lobby and the developer server on one store: players list the catalog
\* while a developer uploads, updates and removes games.
CatalogNext ==
  \/ Connect
  \/ \E c \in ClientIds : handle_game_list(c)
  \/ developer_connect
  \/ \E c \in DevClientIds, developer \in Developers : developer_handle_auth(c, developer)
  \/ \E c \in DevClientIds, name \in Names, version \in Versions :
       handle_upload_start(c, name, version, CHUNK_SIZE, CHUNK_SIZE)
  \/ \E c \in DevClientIds, game_id \in GameIds, new_version \in Versions :
       handle_update_game(c, game_id, new_version, CHUNK_SIZE, CHUNK_SIZE)
  \/ \E c \in DevClientIds : handle_upload_chunk(c, hex(CHUNK_SIZE), CHUNK_SIZE)
  \/ \E c \in DevClientIds, fault \in {"none", "move", "extract"} :
       handle_upload_complete(c, fault)
  \/ \E c \in DevClientIds, game_id \in GameIds : handle_remove_game(c, game_id)

CatalogSpec == UploadInit /\ [][CatalogNext]_vars


\* ------------------------------------------------------------ reviews
\* payload.get('rating') of a payload without the field.
Missing == -1

\* The ratings a payload can carry: none, the two ends of the valid range and
\* the value below the upper end, and the nearest invalid value on each side.
RatingInputs == {Missing, MIN_RATING - 1, MIN_RATING, MAX_RATING - 1, MAX_RATING, MAX_RATING + 1}

Comments == 1..NumComments

RECURSIVE GCD(_, _)
GCD(a, b) == IF b = 0 THEN a ELSE GCD(b, a % b)

\* AVG(rating) as a fraction in lowest terms; the column default 0.0 when
\* there is no review.
Fraction(num, den) ==
  IF den = 0 THEN [num |-> 0, den |-> 1]
  ELSE [num |-> num \div GCD(num, den), den |-> den \div GCD(num, den)]

RECURSIVE SumRatings(_, _, _)
SumRatings(rv, game_id, n) ==
  IF n = 0 THEN 0
  ELSE SumRatings(rv, game_id, n - 1) + (IF rv[n].game_id = game_id THEN rv[n].rating ELSE 0)

ReviewsOf(rv, game_id) == {i \in DOMAIN rv : rv[i].game_id = game_id}

\* The games row is refreshed from the reviews of the game when one of them
\* is inserted or updated.
refresh_rating(gms, rv, game_id) ==
  [gms EXCEPT ![game_id].rating_count = Cardinality(ReviewsOf(rv, game_id)),
              ![game_id].average_rating =
                 Fraction(SumRatings(rv, game_id, Len(rv)), Cardinality(ReviewsOf(rv, game_id)))]

\* reviews.game_id references games(id), with foreign keys enforced.
references_game(gms, game_id) == game_id \in DOMAIN gms

insert_always(rv, game_id, player_id, rating, comment) ==
  Append(rv, [game_id |-> game_id, player_id |-> player_id, rating |-> rating,
              comment |-> comment])

\* INSERT ... ON CONFLICT(game_id, player_id) DO UPDATE SET rating, comment.
upsert(rv, game_id, player_id, rating, comment) ==
  LET hit == {i \in DOMAIN rv : rv[i].game_id = game_id /\ rv[i].player_id = player_id}
      row == [game_id |-> game_id, player_id |-> player_id, rating |-> rating,
              comment |-> comment]
  IN IF hit = {} THEN Append(rv, row)
     ELSE [i \in DOMAIN rv |-> IF i \in hit THEN row ELSE rv[i]]

add_review_stale_aggregates(rv, gms, game_id, player_id, rating, comment) ==
  IF ~references_game(gms, game_id)
  THEN [ok |-> FALSE, reviews |-> rv, games |-> gms]
  ELSE [ok |-> TRUE, reviews |-> upsert(rv, game_id, player_id, rating, comment), games |-> gms]

\* DatabaseManager.add_review: False when the statement raises.
add_review(rv, gms, game_id, player_id, rating, comment) ==
  IF ~references_game(gms, game_id)
  THEN [ok |-> FALSE, reviews |-> rv, games |-> gms]
  ELSE LET ups == upsert(rv, game_id, player_id, rating, comment)
       IN [ok |-> TRUE, reviews |-> ups, games |-> refresh_rating(gms, ups, game_id)]

rating_any(rating) == TRUE

\* 1 <= rating <= 5
rating_in_range(rating) == MIN_RATING <= rating /\ rating <= MAX_RATING

review_submitted(to) == Msg(to, "REVIEW_SUBMITTED", None, None, "", 0, {})

\* LobbyServer.handle_submit_review.
handle_submit_review(c, game_id, rating, comment) ==
  /\ Read(c)
  /\ UNCHANGED <<nconn, clients, rooms, room_players, supVars, tasks, sweeper, archVars,
                 playVars, devVars, player_sessions, now, sideVars>>
  /\ IF clients[c] = None
     THEN Reply(c, create_error_message(c, "Not authenticated")) /\ UNCHANGED <<games, reviews>>
     ELSE IF game_id = None \/ rating = Missing
     THEN Reply(c, create_error_message(c, "Game ID and rating required"))
          /\ UNCHANGED <<games, reviews>>
     ELSE IF ~rating_in_range(rating)
     THEN Reply(c, create_error_message(c, "Rating must be between 1 and 5"))
          /\ UNCHANGED <<games, reviews>>
     ELSE LET added == add_review(reviews, games, game_id, clients[c], rating, comment)
          IN /\ games' = added.games
             /\ reviews' = added.reviews
             /\ IF added.ok THEN Reply(c, review_submitted(c))
                ELSE Reply(c, create_error_message(c, "Failed to submit review"))

\* The lobby's store with the review columns of the games at their defaults,
\* when every connection was accepted and all but the first have closed.
ReviewInit ==
  /\ clients = [c \in {1} |-> None]
  /\ nconn = MaxClients
  /\ wire = [c \in {1} |-> <<>>]
  /\ pc = [c \in ClientIds |-> "idle"]
  /\ frame = [c \in ClientIds |-> NoFrame]
  /\ game_processes = [r \in {} |-> None]
  /\ procs = <<>>
  /\ next_port = GAME_SERVER_START_PORT
  /\ issued = <<>>
  /\ tasks = <<>>
  /\ nauth = 0
  /\ nreq = 0
  /\ InitRooms
  /\ InitSweeper
  /\ InitArchives
  /\ InitDownloads
  /\ InitDeveloper
  /\ player_sessions = <<>>
  /\ now = [day |-> 0, tick |-> 0]
  /\ reviews = <<>>
  /\ InitSide
  /\ games = <<[status |-> "active", current_version |-> 1, rating_count |-> 0,
                average_rating |-> Fraction(0, 0)],
               [status |-> "inactive", current_version |-> 1, rating_count |-> 0,
                average_rating |-> Fraction(0, 0)]>>

ReviewNext ==
  \/ \E c \in ClientIds, cred \in (-1)..NumPlayers : handle_auth(c, cred)
  \/ \E c \in ClientIds, game_id \in GameIds \cup {None}, rating \in RatingInputs,
        comment \in Comments : handle_submit_review(c, game_id, rating, comment)

ReviewSpec == ReviewInit /\ [][ReviewNext]_vars


\* ------------------------------------------------------ session tokens
\* The character between the date and the time of day: 'T' in the text of
\* datetime.isoformat(), a space in the text of SQLite's datetime('now').
T_SEPARATOR == 84

SPACE_SEPARATOR == 32

\* Python's clock and SQLite's clock are taken to show the same zone.
Instants == [day : 0..MaxDay, tick : 0..(TicksPerDay - 1)]

Before(a, b) == a.day < b.day \/ (a.day = b.day /\ a.tick < b.tick)

\* datetime.now() + timedelta(hours=24)
timedelta_day(t) == [day |-> t.day + 1, tick |-> t.tick]

\* expires_at.isoformat(): date, 'T', time of day.
isoformat(t) == <<t.day, T_SEPARATOR, t.tick>>

\* datetime('now'): date, space, time of day.
sqlite_datetime(t) == <<t.day, SPACE_SEPARATOR, t.tick>>

\* The instant a timestamp text stands for.
Instant(text) == [day |-> text[1], tick |-> text[3]]

\* a > b between two TEXT values: the first differing character decides.
TextGreater(a, b) ==
  \E i \in 1..Len(a) : a[i] > b[i] /\ \A j \in 1..(i - 1) : a[j] = b[j]

notSessionVars == <<clients, nconn, pc, frame, dbVars, supVars, tasks, wire, reqVars,
                    sweeper, archVars, playVars, devVars, reviews, sideVars>>

\* DatabaseManager.create_player_session, as handle_auth calls it: the token is
\* the place of the row, a fresh one every time.
create_player_session(player_id) ==
  /\ Len(player_sessions) < MaxSessions
  /\ timedelta_day(now) \in Instants
  /\ player_sessions' = Append(player_sessions,
        [player_id |-> player_id, expires_at |-> isoformat(timedelta_day(now)),
         deleted |-> FALSE])
  /\ UNCHANGED <<notSessionVars, now>>

\* DatabaseManager.validate_player_session: TRUE when the query returns a row.
validate_player_session(ps, token, t) ==
  /\ token \in DOMAIN ps
  /\ ~ps[token].deleted
  /\ TextGreater(ps[token].expires_at, sqlite_datetime(t))

\* DatabaseManager.delete_player_session.
delete_player_session(token) ==
  /\ token \in DOMAIN player_sessions
  /\ ~player_sessions[token].deleted
  /\ player_sessions' = [player_sessions EXCEPT ![token].deleted = TRUE]
  /\ UNCHANGED <<notSessionVars, now>>

\* Time passes.
clock_tick ==
  /\ now' = IF now.tick + 1 < TicksPerDay THEN [now EXCEPT !.tick = @ + 1]
            ELSE [day |-> now.day + 1, tick |-> 0]
  /\ now' \in Instants
  /\ UNCHANGED <<notSessionVars, player_sessions>>

SessionNext ==
  \/ \E player_id \in Players : create_player_session(player_id)
  \/ \E token \in 1..MaxSessions : delete_player_session(token)
  \/ clock_tick

SessionSpec == Init /\ [][SessionNext]_vars


\* ------------------------------------------------------------- framing
\* The tags a frame can carry: one the lobby routes, one of MessageType that
\* it has no handler for, and one that is not in MessageType.
FrameTags == {"GAME_LIST_REQUEST", "HEARTBEAT", "unknown"}

\* The body of a frame: a JSON text or bytes that are none.
FrameBodies == {"json", "malformed"}

\* class MessageType: the tags of the frames above that it holds.
MessageType == {"GAME_LIST_REQUEST", "HEARTBEAT"}

\* The tags process_message has a handler for.
handlers == {"GAME_LIST_REQUEST"}

\* Message.deserialize: json.loads of the body, then MessageType(msg_type);
\* "raise" when either raises.
deserialize(tag, body) ==
  IF body = "malformed" THEN "raise"
  ELSE IF tag \notin MessageType THEN "raise"
  ELSE "ok"

\* handle_client when Message.read_from_stream raises on the frame read:
\* the except branch logs, the finally block drops the connection.
read_from_stream_raises(c, tag, body) ==
  /\ Read(c)
  /\ deserialize(tag, body) = "raise"
  /\ clients' = cleanup_client(clients, c)
  /\ wire' = cleanup_client(wire, c)
  /\ UNCHANGED <<nconn, pc, frame, dbVars, supVars, tasks, extVars>>

\* process_message for a tag of MessageType without a handler.
process_message_no_handler(c, tag) ==
  /\ Read(c)
  /\ deserialize(tag, "json") = "ok"
  /\ tag \notin handlers
  /\ Reply(c, create_error_message(c, "Unknown message type"))
  /\ UNCHANGED <<nconn, clients, dbVars, supVars, tasks, extVars>>

FrameNext ==
  \/ Connect
  \/ \E c \in ClientIds : Disconnect(c)
  \/ \E c \in ClientIds, tag \in FrameTags, body \in FrameBodies :
       read_from_stream_raises(c, tag, body)
  \/ \E c \in ClientIds, tag \in FrameTags : process_message_no_handler(c, tag)
  \/ \E c \in ClientIds : handle_game_list(c)

FrameSpec == Init /\ [][FrameNext]_vars


\* -------------------------------------------------------- byte streams
\* The values of MessageType that the lobby writes: a response, a ROOM_UPDATE
\* of a broadcast, a GAME_STARTED of a start, a DOWNLOAD_CHUNK of a download.
ERROR_TAG == 255
ROOM_UPDATE_TAG == 778
GAME_STARTED_TAG == 777
DOWNLOAD_CHUNK_TAG == 515
WriterTags == <<ERROR_TAG, ROOM_UPDATE_TAG, GAME_STARTED_TAG, DOWNLOAD_CHUNK_TAG>>

\* The values of MessageType among the tags a frame of this section carries.
KnownTags == {WriterTags[i] : i \in DOMAIN WriterTags}

\* The bytes of the JSON text json.dumps writes.
LBRACE == 123
RBRACE == 125
QUOTE == 34
COLON == 58
COMMA == 44
SPACE == 32
DIGIT_ZERO == 48
LETTER_A == 97

\* The payloads: JSON objects, as the key/value pairs of the dict in insertion
\* order.  Keys are one letter (0 for "a", 1 for "b"), values one digit.
Payloads == {<<>>, <<<<0, 1>>>>, <<<<0, 0>>, <<1, 1>>>>}

\* The outcome of a deserialize that raises.
Raise == [raised |-> TRUE]

\* struct.pack('>I', n) and struct.pack('>H', n).
pack_I(n) == <<(n \div 16777216) % 256, (n \div 65536) % 256, (n \div 256) % 256, n % 256>>
pack_H(n) == <<(n \div 256) % 256, n % 256>>

\* struct.unpack('>I', b) and struct.unpack('>H', b).
unpack_I(b) == ((b[1] * 256 + b[2]) * 256 + b[3]) * 256 + b[4]
unpack_H(b) == b[1] * 256 + b[2]

\* json.dumps of one key/value pair: "k": v
dumps_pair(p) == <<QUOTE, LETTER_A + p[1], QUOTE, COLON, SPACE, DIGIT_ZERO + p[2]>>

RECURSIVE dumps_pairs(_)
dumps_pairs(ps) ==
  IF Len(ps) = 0 THEN <<>>
  ELSE IF Len(ps) = 1 THEN dumps_pair(ps[1])
  ELSE dumps_pair(ps[1]) \o <<COMMA, SPACE>> \o dumps_pairs(Tail(ps))

\* json.dumps(payload).encode('utf-8')
json_dumps(payload) == <<LBRACE>> \o dumps_pairs(payload) \o <<RBRACE>>

\* The text of one pair is at the head of b.
is_pair(b) ==
  /\ Len(b) >= 6
  /\ b[1] = QUOTE /\ b[3] = QUOTE /\ b[4] = COLON /\ b[5] = SPACE
  /\ b[2] >= LETTER_A /\ b[2] < LETTER_A + 26
  /\ b[6] >= DIGIT_ZERO /\ b[6] < DIGIT_ZERO + 10

\* json.loads of the text of one pair at the head of b.
loads_pair(b) == <<b[2] - LETTER_A, b[6] - DIGIT_ZERO>>

\* The outcome of a json.loads that raises.
JSONDecodeError == [ok |-> FALSE, value |-> <<>>]

RECURSIVE loads_pairs(_)
loads_pairs(b) ==
  IF ~is_pair(b) THEN JSONDecodeError
  ELSE IF Len(b) = 6 THEN [ok |-> TRUE, value |-> <<loads_pair(b)>>]
  ELSE IF Len(b) < 8 \/ b[7] # COMMA \/ b[8] # SPACE THEN JSONDecodeError
  ELSE LET rest == loads_pairs(SubSeq(b, 9, Len(b)))
       IN IF ~rest.ok THEN JSONDecodeError
          ELSE [ok |-> TRUE, value |-> <<loads_pair(b)>> \o rest.value]

\* json.loads of the texts json.dumps writes; it raises on any other text.
json_loads(b) ==
  IF Len(b) < 2 \/ b[1] # LBRACE \/ b[Len(b)] # RBRACE THEN JSONDecodeError
  ELSE IF Len(b) = 2 THEN [ok |-> TRUE, value |-> <<>>]
  ELSE loads_pairs(SubSeq(b, 2, Len(b) - 1))

\* Message(msg_type, payload)
Message(msg_type, payload) == [msg_type |-> msg_type, payload |-> payload]

serialize_length_of_payload(msg) ==
  pack_I(Len(json_dumps(msg.payload))) \o pack_H(msg.msg_type) \o json_dumps(msg.payload)

\* Message.serialize: header = struct.pack('>IH', len(payload_bytes) + 2, msg_type).
serialize(msg) ==
  pack_I(Len(json_dumps(msg.payload)) + 2) \o pack_H(msg.msg_type) \o json_dumps(msg.payload)

\* Message.deserialize of the bytes after the length prefix; Raise when it raises.
deserialize_data(data) ==
  IF Len(data) < 2 THEN Raise
  ELSE LET msg_type == unpack_H(SubSeq(data, 1, 2))
           payload_data == SubSeq(data, 3, Len(data))
           payload == IF Len(payload_data) > 0 THEN json_loads(payload_data)
                      ELSE [ok |-> TRUE, value |-> <<>>]
       IN IF ~payload.ok THEN Raise
          ELSE IF msg_type \notin KnownTags THEN Raise
          ELSE Message(msg_type, payload.value)

\* Message.read_from_stream, again and again, on the bytes of one connection:
\* readexactly(4), readexactly(length), deserialize.  frames: the messages read;
\* rest: the bytes of a frame that is not complete yet.
RECURSIVE read_from_stream(_)
read_from_stream(b) ==
  IF Len(b) < 4 THEN [frames |-> <<>>, rest |-> b]
  ELSE LET length == unpack_I(SubSeq(b, 1, 4))
       IN IF Len(b) < 4 + length THEN [frames |-> <<>>, rest |-> b]
          ELSE LET more == read_from_stream(SubSeq(b, 5 + length, Len(b)))
               IN [frames |-> <<deserialize_data(SubSeq(b, 5, 4 + length))>> \o more.frames,
                   rest |-> more.rest]

\* StreamWriter.write: the bytes are appended to the transport's buffer.
writer_write(buffer, data) == buffer \o data

\* The frames a coroutine writes: Message objects of its tag.
FramesOf(tag) ==
  UNION {[1..n -> {Message(tag, p) : p \in Payloads}] : n \in 1..MaxFrames}

notStreamVars == <<clients, nconn, pc, frame, dbVars, supVars, tasks, wire, reqVars,
                   sweeper, archVars, playVars, devVars, reviews, player_sessions, now,
                   nc, shutdown>>

\* The coroutines of the lobby that are about to write to connections: the
\* handle_client of a connection with its response, a broadcast_room_update
\* task, the GAME_STARTED loop of another connection's handler, a download.
StreamInit ==
  /\ InitSessions
  /\ InitGames
  /\ InitRooms
  /\ InitSweeper
  /\ InitArchives
  /\ InitDownloads
  /\ InitDeveloper
  /\ reviews = <<>>
  /\ player_sessions = <<>>
  /\ now = [day |-> 0, tick |-> 0]
  /\ stream = [c \in ClientIds |-> <<>>]
  /\ nc = NoClient
  /\ shutdown = NoShutdown
  /\ writers \in [1..NumWriters -> [to : ClientIds, msgs : UNION {FramesOf(t) : t \in KnownTags},
                                    n : {0}, at : {"write"}]]
  /\ \A w \in 1..NumWriters :
       \A i \in DOMAIN writers[w].msgs :
         writers[w].msgs[i].msg_type = WriterTags[((w - 1) % Len(WriterTags)) + 1]

\* A write_to_stream whose header and payload go out in two writes with an
\* await between them.
write_to_stream_in_two(w) ==
  /\ w \in DOMAIN writers
  /\ writers[w].n < Len(writers[w].msgs)
  /\ LET data == serialize(writers[w].msgs[writers[w].n + 1])
     IN \/ /\ writers[w].at = "write"
           /\ stream' = [stream EXCEPT ![writers[w].to] = writer_write(@, SubSeq(data, 1, 6))]
           /\ writers' = [writers EXCEPT ![w].at = "payload"]
        \/ /\ writers[w].at = "payload"
           /\ stream' = [stream EXCEPT ![writers[w].to] = writer_write(@, SubSeq(data, 7, Len(data)))]
           /\ writers' = [writers EXCEPT ![w].at = "drain"]
  /\ UNCHANGED notStreamVars

\* Message.write_to_stream up to its await: writer.write(self.serialize()).
write_to_stream(w) ==
  /\ w \in DOMAIN writers
  /\ writers[w].at = "write"
  /\ writers[w].n < Len(writers[w].msgs)
  /\ stream' = [stream EXCEPT ![writers[w].to] =
                  writer_write(@, serialize(writers[w].msgs[writers[w].n + 1]))]
  /\ writers' = [writers EXCEPT ![w].at = "drain"]
  /\ UNCHANGED notStreamVars

\* writer.drain() returns and the coroutine goes on to its next frame.
drain(w) ==
  /\ w \in DOMAIN writers
  /\ writers[w].at = "drain"
  /\ writers' = [writers EXCEPT ![w].at = "write", ![w].n = @ + 1]
  /\ UNCHANGED <<notStreamVars, stream>>

StreamNext ==
  \/ \E w \in 1..NumWriters : write_to_stream(w)
  \/ \E w \in 1..NumWriters : drain(w)

StreamSpec == StreamInit /\ [][StreamNext]_vars


\* ---------------------------------------------------------- shutdown
notShutdownVars == <<connVars, pc, frame, dbVars, supVars, tasks, wire, reqVars, sweeper,
                     archVars, playVars, devVars, reviews, player_sessions, now,
                     writers, stream, nc>>

\* A stop_game_server coroutine that gather has scheduled and that has not run yet.
NoStop == [at |-> "start", proc |-> None, terminated |-> FALSE, killed |-> FALSE]

\* The lobby when player 1, on the only connection, has created room 1.
ShutdownInit ==
  /\ clients = [c \in {1} |-> 1]
  /\ nconn = MaxClients
  /\ wire = [c \in {1} |-> <<Msg(1, "AUTH_RESPONSE", None, None, "", 0, {1}),
                             Msg(1, "ROOM_CREATED", 1, None, "", 0, {})>>]
  /\ pc = [c \in ClientIds |-> "idle"]
  /\ frame = [c \in ClientIds |-> NoFrame]
  /\ game_processes = [r \in {} |-> None]
  /\ procs = <<>>
  /\ next_port = GAME_SERVER_START_PORT
  /\ issued = <<>>
  /\ tasks = <<>>
  /\ nauth = 1
  /\ nreq = 1
  /\ InitGames
  /\ rooms = create_room(<<>>, {}, 1, 1, 1).rooms
  /\ room_players = create_room(<<>>, {}, 1, 1, 1).room_players
  /\ InitSweeper
  /\ InitArchives
  /\ InitDownloads
  /\ InitDeveloper
  /\ InitStore

\* GameServerManager.shutdown_all up to its await: one stop_game_server
\* coroutine per key of game_processes, handed to gather; with no key it returns.
shutdown_all ==
  /\ ~shutdown.called
  /\ shutdown' = [called |-> TRUE,
                  entries |-> {game_processes[r] : r \in DOMAIN game_processes},
                  stops |-> [r \in DOMAIN game_processes |-> NoStop],
                  returned |-> DOMAIN game_processes = {}]
  /\ UNCHANGED notShutdownVars

\* GameServerManager.stop_game_server up to its first await.  Without an entry
\* it returns False.  proc.terminate() on a child that has exited raises
\* ProcessLookupError or does nothing, and proc.wait() is then done at once.
stop_game_server(room_id) ==
  /\ room_id \in DOMAIN shutdown.stops
  /\ shutdown.stops[room_id].at = "start"
  /\ shutdown' = [shutdown EXCEPT !.stops[room_id] =
       IF room_id \notin DOMAIN game_processes THEN [@ EXCEPT !.at = "done"]
       ELSE IF ~procs[game_processes[room_id]].alive
       THEN [@ EXCEPT !.at = "done", !.proc = game_processes[room_id]]
       ELSE [@ EXCEPT !.at = "wait", !.proc = game_processes[room_id], !.terminated = TRUE]]
  /\ UNCHANGED notShutdownVars

\* wait_for(proc.wait(), timeout=5.0) raises TimeoutError: proc.kill().
stop_game_server_timeout(room_id) ==
  /\ room_id \in DOMAIN shutdown.stops
  /\ shutdown.stops[room_id].at = "wait"
  /\ procs[shutdown.stops[room_id].proc].alive
  /\ shutdown' = [shutdown EXCEPT !.stops[room_id].at = "kill", !.stops[room_id].killed = TRUE]
  /\ UNCHANGED notShutdownVars

\* proc.wait() is done, in wait_for or after the kill: return True.
stop_game_server_exited(room_id) ==
  /\ room_id \in DOMAIN shutdown.stops
  /\ shutdown.stops[room_id].at \in {"wait", "kill"}
  /\ ~procs[shutdown.stops[room_id].proc].alive
  /\ shutdown' = [shutdown EXCEPT !.stops[room_id].at = "done"]
  /\ UNCHANGED notShutdownVars

\* gather is done: shutdown_all returns.
shutdown_all_return ==
  /\ shutdown.called
  /\ ~shutdown.returned
  /\ \A r \in DOMAIN shutdown.stops : shutdown.stops[r].at = "done"
  /\ shutdown' = [shutdown EXCEPT !.returned = TRUE]
  /\ UNCHANGED notShutdownVars

ShutdownNext ==
  \/ \E c \in ClientIds, r \in RoomIds, exists \in BOOLEAN : handle_start_game(c, r, exists)
  \/ \E c \in ClientIds, ok \in BOOLEAN : spawn_game_server_exec(c, ok)
  \/ \E c \in ClientIds : handle_start_game_commit(c)
  \/ \E c \in ClientIds : handle_start_game_notify(c)
  \/ \E p \in 1..MaxReq : child_exit(p)
  \/ \E p \in 1..MaxReq : monitor_process(p)
  \/ shutdown_all
  \/ \E r \in RoomIds : stop_game_server(r)
  \/ \E r \in RoomIds : stop_game_server_timeout(r)
  \/ \E r \in RoomIds : stop_game_server_exited(r)
  \/ shutdown_all_return

ShutdownSpec == ShutdownInit /\ [][ShutdownNext]_vars


\* ------------------------------------------- the player's NetworkClient
\* The requests the client sends with send_and_wait: one with a response tag
\* of its own, one answered with SUCCESS or ERROR.
RequestTypes == {"JOIN_ROOM", "LEAVE_ROOM"}

\* _handle_received_message: response_map.get(msg_type); "None" without an entry.
response_map(msg_type) == IF msg_type = "ROOM_JOINED" THEN "JOIN_ROOM" ELSE "None"

\* The tags the lobby answers a request with.
RepliesTo(request_type) ==
  IF request_type = "JOIN_ROOM" THEN {"ROOM_JOINED", "ERROR"} ELSE {"SUCCESS", "ERROR"}

notClientVars == <<connVars, pc, frame, dbVars, supVars, tasks, wire, reqVars, sweeper,
                   archVars, playVars, devVars, reviews, player_sessions, now,
                   writers, stream, shutdown>>

\* send_and_wait up to the return of send_message: the request is on the wire.
send_message(request_type) ==
  /\ nc.caller = "idle"
  /\ Len(nc.sent) < MaxCalls
  /\ nc' = [nc EXCEPT !.caller = "sent", !.sent = Append(@, request_type)]
  /\ UNCHANGED notClientVars

\* The lobby answers the oldest request it has not answered; re: the place of
\* that request among the requests sent.
server_reply(msg_type) ==
  /\ nc.replied < Len(nc.sent)
  /\ msg_type \in RepliesTo(nc.sent[nc.replied + 1])
  /\ nc' = [nc EXCEPT !.replied = @ + 1,
                      !.socket = Append(@, [type |-> msg_type, re |-> nc.replied + 1])]
  /\ UNCHANGED notClientVars

\* A broadcast of the lobby reaches the client.
server_notify ==
  /\ nc.notes < MaxNotes
  /\ nc' = [nc EXCEPT !.notes = @ + 1,
                      !.socket = Append(@, [type |-> "ROOM_UPDATE", re |-> None])]
  /\ UNCHANGED notClientVars

\* send_and_wait after send_message: event = threading.Event();
\* self.response_events[message.msg_type] = event.
register_event ==
  /\ nc.caller = "sent"
  /\ nc' = [nc EXCEPT !.caller = "waiting",
                      !.response_events = @ \cup {nc.sent[Len(nc.sent)]},
                      !.set = @ \ {nc.sent[Len(nc.sent)]}]
  /\ UNCHANGED notClientVars

\* NetworkClient._handle_received_message on a message that is no download
\* message, with no download in progress.
handle_received(message) ==
  LET request_type == response_map(message.type)
      unset == nc.response_events \ nc.set
  IN IF request_type # "None" /\ request_type \in nc.response_events
     THEN [nc EXCEPT !.socket = Tail(@),
                     !.responses = With(@, request_type, message),
                     !.set = @ \cup {request_type}]
     ELSE IF message.type \in {"SUCCESS", "ERROR"} /\ unset # {}
     THEN LET pending_type == CHOOSE p \in unset : TRUE
          IN [nc EXCEPT !.socket = Tail(@),
                        !.responses = With(@, pending_type, message),
                        !.set = @ \cup {pending_type}]
     ELSE [nc EXCEPT !.socket = Tail(@), !.on_message = Append(@, message)]

\* One turn of _receive_loop.
receive_loop ==
  /\ nc.socket # <<>>
  /\ nc' = handle_received(Head(nc.socket))
  /\ UNCHANGED notClientVars

\* event.wait returns True: the response is popped, the event deleted.
wait_returns ==
  /\ nc.caller = "waiting"
  /\ nc.sent[Len(nc.sent)] \in nc.set
  /\ nc' = [nc EXCEPT !.caller = "idle",
                      !.returned = Append(@, [request |-> Len(nc.sent),
                          response |-> IF nc.sent[Len(nc.sent)] \in DOMAIN nc.responses
                                       THEN nc.responses[nc.sent[Len(nc.sent)]]
                                       ELSE [type |-> "None", re |-> None]]),
                      !.responses = Without(@, nc.sent[Len(nc.sent)]),
                      !.response_events = @ \ {nc.sent[Len(nc.sent)]},
                      !.set = @ \ {nc.sent[Len(nc.sent)]}]
  /\ UNCHANGED notClientVars

\* event.wait times out: the event is deleted, None is returned.
wait_times_out ==
  /\ nc.caller = "waiting"
  /\ nc.sent[Len(nc.sent)] \notin nc.set
  /\ nc' = [nc EXCEPT !.caller = "idle",
                      !.returned = Append(@, [request |-> Len(nc.sent),
                                              response |-> [type |-> "None", re |-> None]]),
                      !.response_events = @ \ {nc.sent[Len(nc.sent)]}]
  /\ UNCHANGED notClientVars

ClientNext ==
  \/ \E request_type \in RequestTypes : send_message(request_type)
  \/ \E msg_type \in {"ROOM_JOINED", "SUCCESS", "ERROR"} : server_reply(msg_type)
  \/ server_notify
  \/ register_event
  \/ receive_loop
  \/ wait_returns
  \/ wait_times_out

ClientSpec == Init /\ [][ClientNext]_vars


\* ------------------------------------------- the version a player is served
\* The payload of UPDATE_AVAILABLE.
update_available(to, available, current_version, latest_version) ==
  [to |-> to, type |-> "UPDATE_AVAILABLE", update_available |-> available,
   current_version |-> current_version, latest_version |-> latest_version]

\* handle_check_update: latest = game['current_version'].
latest_version(gms, game_id) == gms[game_id].current_version

\* LobbyServer.handle_check_update.  It asks for no authentication.
handle_check_update(c, game_id, current_version) ==
  /\ Read(c)
  /\ UNCHANGED <<nconn, clients, dbVars, supVars, tasks, extVars>>
  /\ IF game_id \notin DOMAIN games
     THEN Reply(c, create_error_message(c, "Game not found"))
     ELSE LET latest == latest_version(games, game_id)
          IN Reply(c, update_available(c, latest # current_version, current_version, latest))

\* The lobby has one connection, authenticated as player 1; the developer
\* server has one, authenticated as developer 1, the owner of game 1, who has
\* sent UPDATE_GAME for version new_version of game 1 and the whole archive.
VersionInit ==
  /\ clients = [c \in {1} |-> 1]
  /\ nconn = MaxClients
  /\ wire = [c \in {1} |-> <<>>]
  /\ pc = [c \in ClientIds |-> "idle"]
  /\ frame = [c \in ClientIds |-> NoFrame]
  /\ game_processes = [r \in {} |-> None]
  /\ procs = <<>>
  /\ next_port = GAME_SERVER_START_PORT
  /\ issued = <<>>
  /\ tasks = <<>>
  /\ nauth = 0
  /\ nreq = 0
  /\ InitRooms
  /\ InitSweeper
  /\ InitDownloads
  /\ InitStore
  /\ games = <<[name |-> 1, developer_id |-> 1, status |-> "active", current_version |-> 1,
                download_count |-> 0]>>
  /\ game_versions = <<[game_id |-> 1, version |-> 1, file_path |-> <<1, 1>>,
                        file_size |-> CHUNK_SIZE, checksum |-> CHUNK_SIZE]>>
  /\ files = [p \in {<<1, 1>>} |-> [size |-> CHUNK_SIZE, sum |-> CHUNK_SIZE]]
  /\ dclients = [c \in {1} |-> 1]
  /\ dreply = [c \in {1} |-> [type |-> "SUCCESS", error |-> ""]]
  /\ \E new_version \in Versions :
       LET temp_file == <<1, "update", 1, new_version>>
       IN /\ uploads = [c \in {1} |->
                          [mode |-> "update", game_id |-> 1, name |-> 1,
                           version |-> new_version, file_size |-> CHUNK_SIZE,
                           checksum |-> CHUNK_SIZE, temp_file |-> temp_file,
                           received_bytes |-> CHUNK_SIZE]]
          /\ temps = [p \in {temp_file} |->
                        [len |-> CHUNK_SIZE, from |-> CHUNK_SIZE, open |-> TRUE]]

\* A developer uploads and updates while a player asks for the latest version
\* and downloads it.
VersionNext ==
  \/ \E c \in DevClientIds, name \in Names, version \in Versions :
       handle_upload_start(c, name, version, CHUNK_SIZE, CHUNK_SIZE)
  \/ \E c \in DevClientIds, game_id \in GameIds, new_version \in Versions :
       handle_update_game(c, game_id, new_version, CHUNK_SIZE, CHUNK_SIZE)
  \/ \E c \in DevClientIds : handle_upload_chunk(c, hex(CHUNK_SIZE), CHUNK_SIZE)
  \/ \E c \in DevClientIds, fault \in {"none", "move", "extract"} :
       handle_upload_complete(c, fault)
  \/ \E c \in ClientIds, g \in GameIds : download_game(c, g, None)
  \/ \E c \in ClientIds, g \in GameIds : handle_download_request(c, g, None)
  \/ \E c \in ClientIds : download_stream(c, "none", FALSE)
  \/ \E c \in ClientIds, g \in GameIds, v \in Versions : handle_check_update(c, g, v)

VersionSpec == VersionInit /\ [][VersionNext]_vars


\* ================================================================ claims
Last(seq) == seq[Len(seq)]

Members(room_id) == {m \in room_players : m[1] = room_id}

\* The step wrote exactly one more frame to connection c, and it is an ERROR.
AnsweredWithError(c) ==
  /\ c \in DOMAIN wire'
  /\ Len(wire'[c]) = Len(wire[c]) + 1
  /\ Last(wire'[c]).type = "ERROR"

C3_StatusOnlyMovesForward ==
  [][\A r \in DOMAIN rooms :
       /\ rooms[r].status = "closed" => rooms'[r].status = "closed"
       /\ rooms[r].status = "playing" => rooms'[r].status # "waiting"
       /\ (rooms[r].status # "playing" /\ rooms'[r].status = "playing")
            => rooms[r].status = "waiting"]_vars

\* C4: a GAME_STARTED is written only once the room is committed as playing,
\* SUCCESS (with the room_id and the port) is what ends the handler, and when
\* it is returned every member whose session has been open since the room was
\* committed has been written a GAME_STARTED.
C4_EveryMemberNotifiedBeforeSuccess ==
  [][\A c \in ClientIds :
       /\ (c \in DOMAIN clients /\ pc[c] \in {"sleep", "notify"} /\ pc'[c] = "notify")
            => rooms'[frame'[c].room].status # "waiting"
       /\ (c \in DOMAIN clients /\ pc[c] = "notify" /\ pc'[c] = "idle")
            => /\ Last(wire'[c]) = create_success_message(c, frame[c].room, frame[c].port)
               /\ \A s \in frame[c].open :
                    (/\ s[1] \in get_room_players(room_players, frame[c].room)
                     /\ s[2] \in DOMAIN clients
                     /\ clients[s[2]] = s[1])
                    => s[1] \in frame[c].sent]_vars

\* C5: when the child could not be spawned, or has exited before
\* spawn_game_server returns, the START_GAME_REQUEST is answered with ERROR and
\* the room's status is not changed.
C5_FailedSpawnLeavesRoom ==
  [][\A c \in ClientIds :
       /\ (c \in DOMAIN clients /\ pc[c] = "exec" /\ pc'[c] = "idle")
            => AnsweredWithError(c) /\ rooms' = rooms
       /\ (c \in DOMAIN clients /\ pc[c] = "sleep" /\ pc'[c] # "sleep"
             /\ ~procs[frame[c].proc].alive)
            => AnsweredWithError(c) /\ rooms'[frame[c].room].status = rooms[frame[c].room].status]_vars

\* C6: a room whose status is playing has a game_port and a supervisor entry.
C6_PlayingRoomHasServer ==
  \A r \in DOMAIN rooms :
    rooms[r].status = "playing" => rooms[r].game_port # None /\ r \in DOMAIN game_processes

\* C7: the ports taken by spawn_game_server calls, failed ones included, are
\* pairwise different and at least the start port; every child runs on the port
\* its call took, so no two running children share a port.
C7_PortsNeverReused ==
  /\ \A i \in DOMAIN issued : issued[i] >= GAME_SERVER_START_PORT
  /\ \A i, j \in DOMAIN issued : i # j => issued[i] # issued[j]
  /\ \A p, q \in DOMAIN procs :
       (p # q /\ procs[p].alive /\ procs[q].alive) => procs[p].port # procs[q].port

\* Two spawn_game_server calls are in their sleep at once, their children both run.
C7_Witness ==
  \E c, d \in DOMAIN clients :
    /\ c # d
    /\ pc[c] = "sleep" /\ pc[d] = "sleep"
    /\ procs[frame[c].proc].alive /\ procs[frame[d].proc].alive

\* C8: START_GAME_REQUEST from an authenticated player who is not the host of
\* the room is answered with ERROR, spawns nothing and leaves every room row,
\* the supervisor and the port counter as they were.
C8_NonHostCannotStart ==
  [][\A c \in ClientIds, r \in RoomIds, e \in BOOLEAN :
       (/\ handle_start_game(c, r, e)
        /\ clients[c] # None
        /\ r \in DOMAIN rooms
        /\ rooms[r].host_id # clients[c])
       => /\ AnsweredWithError(c)
          /\ pc'[c] = "idle"
          /\ UNCHANGED <<rooms, game_processes, procs, next_port, issued>>]_vars

\* A non-host was told that only the host can start the game.
C8_Witness ==
  \E c \in DOMAIN wire :
    /\ wire[c] # <<>>
    /\ Last(wire[c]).text = "Only host can start game"
    /\ \E r \in DOMAIN rooms : rooms[r].host_id # clients[c] /\ rooms[r].status = "waiting"

\* C9: LEAVE_ROOM by the host of a waiting room sets that room closed and
\* changes the status of no other room.
C9_HostLeaveClosesOnlyThatRoom ==
  [][\A c \in ClientIds, r \in RoomIds :
       (/\ handle_leave_room(c, r)
        /\ clients[c] # None
        /\ r \in DOMAIN rooms
        /\ rooms[r].host_id = clients[c]
        /\ rooms[r].status = "waiting")
       => /\ rooms'[r].status = "closed"
          /\ \A q \in DOMAIN rooms \ {r} : rooms'[q] = rooms[q]]_vars

\* The host of two waiting rooms got SUCCESS for a LEAVE_ROOM: the room with the
\* larger id is closed, the older one still waits.
C9_Witness ==
  \E c \in DOMAIN wire, r, q \in DOMAIN rooms :
    /\ wire[c] # <<>>
    /\ Last(wire[c]) = create_success_message(c, None, None)
    /\ q < r
    /\ rooms[r].host_id = clients[c] /\ rooms[r].status = "closed"
    /\ rooms[q].host_id = clients[c] /\ rooms[q].status = "waiting"

C11_SweeperClosesExactlyExpired ==
  /\ [](sweeper.alive)
  /\ [][\A raised \in BOOLEAN :
          cleanup_expired_rooms_tick(raised) =>
            /\ sweeper'.alive
            /\ raised => rooms' = rooms
            /\ ~raised =>
                 \A r \in DOMAIN rooms :
                   IF rooms[r].status = "waiting" /\ r <= sweeper.n_old
                   THEN rooms'[r].status = "closed"
                   ELSE rooms'[r] = rooms[r]]_vars

\* The tick after a tick that raised closed an old waiting room, next to an old
\* playing room and a younger waiting room that it left alone.
C11_Witness ==
  /\ sweeper.recovered
  /\ sweeper.closed # {}
  /\ \E p, w \in DOMAIN rooms :
       /\ p <= sweeper.n_old /\ rooms[p].status = "playing"
       /\ w > sweeper.n_old /\ rooms[w].status = "waiting"

\* C12: in every state each game's download_count is the number of downloads
\* rows of that game, and a downloads row is only ever added in a step that
\* writes the DOWNLOAD_COMPLETE of its stream to the requester's connection.
C12_DownloadsCounted ==
  /\ [](\A g \in DOMAIN games :
          games[g].download_count = Cardinality({i \in DOMAIN downloads : downloads[i].game_id = g}))
  /\ [][downloads' # downloads =>
          \E c \in DOMAIN wire \cap DOMAIN wire' :
            /\ Len(wire'[c]) = Len(wire[c]) + 1
            /\ Last(wire'[c]).type = "DOWNLOAD_COMPLETE"]_vars

\* The bytes a DOWNLOAD_CHUNK carries once its hex text is decoded.
Bytes(m) == fromhex(m.data)

\* The number of bytes of the stream sent up to and including message j of w.
StreamEnd(w, j) == IF w[j].type = "DOWNLOAD_META" THEN 0 ELSE w[j].offset + Bytes(w[j])

\* The DOWNLOAD_META that opened the stream message j of w belongs to.
MetaOf(w, j) ==
  CHOOSE i \in 1..j : w[i].type = "DOWNLOAD_META" /\ \A k \in (i + 1)..j : w[k].type # "DOWNLOAD_META"

InStream(m) == m.type \in {"DOWNLOAD_META", "DOWNLOAD_CHUNK"}

\* C13: on every connection a DOWNLOAD_META opens a stream only when no other
\* is open, every DOWNLOAD_CHUNK follows the DOWNLOAD_META or a chunk of its
\* stream, carries at most CHUNK_SIZE bytes and has as offset the bytes sent
\* before it, and a DOWNLOAD_COMPLETE follows them directly with bytes_sent
\* equal to the bytes of the chunks and to the file_size of the DOWNLOAD_META.
C13_DownloadStream ==
  \A c \in DOMAIN wire :
    LET w == wire[c]
    IN \A j \in DOMAIN w :
         /\ w[j].type = "DOWNLOAD_META" => (j = 1 \/ ~InStream(w[j - 1]))
         /\ w[j].type = "DOWNLOAD_CHUNK" =>
              /\ j > 1 /\ InStream(w[j - 1])
              /\ Bytes(w[j]) <= CHUNK_SIZE
              /\ w[j].offset = StreamEnd(w, j - 1)
         /\ w[j].type = "DOWNLOAD_COMPLETE" =>
              /\ j > 1 /\ InStream(w[j - 1])
              /\ w[j].bytes_sent = StreamEnd(w, j - 1)
              /\ w[j].bytes_sent = w[MetaOf(w, j)].file_size

\* C14: on an open connection every message of a download stream is followed
\* by a chunk, the DOWNLOAD_COMPLETE or an ERROR, and the handler is idle again
\* only when the stream has been ended by one of the two; and a download during
\* which the client put an ERROR in the worker's queue is never reported as
\* succeeded.
C14_ErrorEndsDownload ==
  /\ \A c \in DOMAIN wire :
       LET w == wire[c]
       IN \A j \in DOMAIN w :
            InStream(w[j]) =>
              IF j = Len(w) THEN pc[c] # "idle"
              ELSE w[j + 1].type \in {"DOWNLOAD_CHUNK", "DOWNLOAD_COMPLETE", "ERROR"}
  /\ \A c \in ClientIds : net[c].got_error => net[c].result # "ok"

\* The ways the finalization of connection c's upload must fail: the bytes
\* received are not as many as announced, they do not hash to the announced
\* checksum, the game is no longer the user's, the name was taken meanwhile,
\* or a step of the finalization raises.
UploadFails(c, fault) ==
  LET upload == uploads[c]
      temp == temps[upload.temp_file]
  IN \/ temp.len # upload.file_size
     \/ calculate_checksum(temp.from, temp.len) # upload.checksum
     \/ upload.mode = "update" /\ games[upload.game_id].developer_id # dclients[c]
     \/ upload.mode = "new" /\ ~unique_game_name(games, upload.name)
     \/ fault # "none"

\* C15: an UPLOAD_CHUNK that would take received_bytes past the size
\* announced at UPLOAD_START/UPDATE_GAME is answered with ERROR, and
\* received_bytes never exceeds that size.
C15_ChunkWithinExpectedSize ==
  /\ [](\A c \in DOMAIN uploads : uploads[c].received_bytes <= uploads[c].file_size)
  /\ [][\A c \in DevClientIds, from \in ArchiveSizes :
          (/\ c \in DOMAIN uploads
           /\ uploads[c].received_bytes + CHUNK_SIZE > uploads[c].file_size
           /\ handle_upload_chunk(c, hex(CHUNK_SIZE), from))
          => dreply'[c].type = "ERROR"]_vars

\* C16: an UPLOAD_COMPLETE that meets an error (size mismatch, checksum
\* mismatch, lost ownership, game-row conflict, an exception while
\* finalizing) is answered with ERROR, and afterwards the connection has no
\* upload in flight and its temporary file is gone.
C16_FailedUploadCleansUp ==
  [][\A c \in DevClientIds, fault \in {"none", "move", "extract"} :
       (/\ c \in DOMAIN dclients
        /\ dclients[c] # None
        /\ c \in DOMAIN uploads
        /\ UploadFails(c, fault)
        /\ handle_upload_complete(c, fault))
       => /\ dreply'[c].type = "ERROR"
          /\ c \notin DOMAIN uploads'
          /\ uploads[c].temp_file \notin DOMAIN temps']_vars

\* C17: when a developer connection with an upload in flight closes, the
\* upload entry is removed and its temporary file is closed and deleted; no
\* upload entry belongs to a connection that is not open.
C17_DisconnectCleansUpload ==
  /\ [](DOMAIN uploads \subseteq DOMAIN dclients)
  /\ [][\A c \in DevClientIds :
          (c \in DOMAIN uploads /\ developer_disconnect(c))
          => /\ c \notin DOMAIN uploads'
             /\ uploads[c].temp_file \notin DOMAIN temps']_vars

\* C18: when an UPDATE_GAME upload of version V for game G is answered with
\* UPLOAD_SUCCESS, a version row (G, V) exists and G's current_version is V.
C18_UpdateSetsCurrentVersion ==
  [][\A c \in DevClientIds, fault \in {"none", "move", "extract"} :
       (/\ c \in DOMAIN uploads
        /\ uploads[c].mode = "update"
        /\ handle_upload_complete(c, fault)
        /\ dreply'[c].type = "UPLOAD_SUCCESS")
       => /\ ~unique_game_version(game_versions', uploads[c].game_id, uploads[c].version)
          /\ games'[uploads[c].game_id].current_version = uploads[c].version]_vars

\* C19: an update upload whose new_version is already a version row of the
\* game is answered with ERROR, and the version rows and the stored archives
\* stay as they were.
C19_DuplicateVersionRejected ==
  [][\A c \in DevClientIds, fault \in {"none", "move", "extract"} :
       (/\ c \in DOMAIN uploads
        /\ uploads[c].mode = "update"
        /\ ~unique_game_version(game_versions, uploads[c].game_id, uploads[c].version)
        /\ handle_upload_complete(c, fault))
       => /\ dreply'[c].type = "ERROR"
          /\ game_versions' = game_versions
          /\ files' = files]_vars

\* C20: in every state, the archive stored at the file_path of every version
\* row hashes to the checksum of the row.
C20_ArchiveMatchesChecksum ==
  \A i \in DOMAIN game_versions :
    /\ game_versions[i].file_path \in DOMAIN files
    /\ files[game_versions[i].file_path].sum = game_versions[i].checksum

\* C21: game names stay unique under every interleaving of two developer
\* sessions: when both have passed UPLOAD_START for the same new name, the
\* UPLOAD_COMPLETE that comes second creates no game row, is answered with
\* ERROR, and leaves no upload in flight and no temporary file.
C21_GameNamesStayUnique ==
  /\ [](\A g, h \in DOMAIN games : games[g].name = games[h].name => g = h)
  /\ [][\A c \in RaceClientIds, fault \in {"none", "move", "extract"} :
          (/\ c \in DOMAIN uploads
           /\ uploads[c].mode = "new"
           /\ ~unique_game_name(games, uploads[c].name)
           /\ handle_upload_complete(c, fault))
          => /\ games' = games
             /\ dreply'[c].type = "ERROR"
             /\ c \notin DOMAIN uploads'
             /\ uploads[c].temp_file \notin DOMAIN temps']_vars

\* Both sessions uploaded the whole archive under the same new name; one was
\* answered UPLOAD_SUCCESS and the other was refused the game row.
C21_Witness ==
  \E c, d \in RaceClientIds :
    /\ dreply[c].type = "UPLOAD_SUCCESS"
    /\ dreply[d].error = "Failed to create game entry"
    /\ \E g \in DOMAIN games : games[g].name = NumNames
    /\ DOMAIN uploads = {}
    /\ DOMAIN temps = {}

\* The status, current_version, version rows and archives of game g.
Holdings(gms, gv, fl, g) ==
  [status |-> gms[g].status, current_version |-> gms[g].current_version,
   rows |-> {gv[i] : i \in {j \in DOMAIN gv : gv[j].game_id = g}},
   archives |-> [p \in {q \in DOMAIN fl : q[1] = g} |-> fl[p]]]

\* Connection c is not authenticated as the owner of game g.
NotOwner(c, g) == c \in DOMAIN dclients /\ g \in DOMAIN games /\ games[g].developer_id # dclients[c]

\* The step is a request of developer connection c that can write game g:
\* REMOVE_GAME of g, or the UPLOAD_COMPLETE of an update of g.
Changes(c, g) ==
  \/ handle_remove_game(c, g)
  \/ /\ c \in DOMAIN uploads
     /\ uploads[c].mode = "update"
     /\ uploads[c].game_id = g
     /\ \E fault \in {"none", "move", "extract"} : handle_upload_complete(c, fault)

VersionRows(gv, g) == {gv[i] : i \in {j \in DOMAIN gv : gv[j].game_id = g}}

\* C23: a REMOVE_GAME of the owner that succeeds sets the game inactive and
\* keeps its row and version rows; an inactive game stays inactive under every
\* operation, and every GAME_LIST_RESPONSE lists the active games only.
C23_RemovedGameStaysHidden ==
  [][/\ \A c \in DevClientIds, g \in GameIds :
          (handle_remove_game(c, g) /\ dreply'[c].type = "REMOVE_SUCCESS")
          => /\ games'[g] = [games[g] EXCEPT !.status = "inactive"]
             /\ game_versions' = game_versions
             /\ files' = files
     /\ \A g \in DOMAIN games :
          games[g].status = "inactive"
          => /\ games'[g].status = "inactive"
             /\ VersionRows(game_versions, g) \subseteq VersionRows(game_versions', g)
     /\ \A c \in ClientIds :
          handle_game_list(c)
          => \A g \in DOMAIN games :
               games[g].status = "inactive" => g \notin Last(wire'[c]).games]_vars

\* The owner removed a game and began an update of it, and a player then
\* listed the catalog.
C23_Witness ==
  \E g \in DOMAIN games, c \in DOMAIN wire :
    /\ games[g].status = "inactive"
    /\ VersionRows(game_versions, g) # {}
    /\ \E d \in DOMAIN uploads : uploads[d].mode = "update" /\ uploads[d].game_id = g
    /\ wire[c] # <<>>
    /\ Last(wire[c]).type = "GAME_LIST_RESPONSE"
    /\ g \notin Last(wire[c]).games

\* The step read a request from connection c and wrote one frame to it.
Answered(c) ==
  /\ nreq' = nreq + 1
  /\ c \in DOMAIN wire
  /\ c \in DOMAIN wire'
  /\ Len(wire'[c]) = Len(wire[c]) + 1

Reviewed(rv, game_id, player_id, rating, comment) ==
  \E i \in DOMAIN rv : rv[i] = [game_id |-> game_id, player_id |-> player_id,
                                rating |-> rating, comment |-> comment]

C26_RatingOutOfRangeRejected ==
  [][\A c \in ClientIds, g \in GameIds, cm \in Comments :
       \A r \in {x \in RatingInputs : x # Missing /\ (x < MIN_RATING \/ x > MAX_RATING)} :
          (Answered(c) /\ handle_submit_review(c, g, r, cm))
          => /\ Last(wire'[c]).type = "ERROR"
             /\ reviews' = reviews
             /\ games' = games]_vars

\* An authenticated player who has a review of a game was told that the rating
\* must be between 1 and 5.
C26_Witness ==
  \E c \in DOMAIN wire :
    /\ clients[c] # None
    /\ wire[c] # <<>>
    /\ Last(wire[c]).text = "Rating must be between 1 and 5"
    /\ \E i \in DOMAIN reviews : reviews[i].player_id = clients[c]

\* Connection c sent one of the lobby requests that need an authenticated user.
LobbyRequest(c) ==
  \/ \E g \in GameIds, v \in None..NumVersions : handle_download_request(c, g, v)
  \/ \E g \in GameIds, n \in 1..MaxSeats, collide \in BOOLEAN : handle_create_room(c, g, n, collide)
  \/ \E r \in RoomIds : handle_join_room(c, r) \/ handle_leave_room(c, r)
  \/ \E r \in RoomIds, exists \in BOOLEAN : handle_start_game(c, r, exists)
  \/ \E g \in GameIds \cup {None}, r \in RatingInputs, cm \in Comments :
       handle_submit_review(c, g, r, cm)

\* Connection c sent one of the developer requests that need an authenticated user.
DeveloperRequest(c) ==
  \/ handle_my_games(c)
  \/ \E name \in Names \cup {None}, v \in Versions, fs, ck \in ArchiveSizes \cup {None} :
       handle_upload_start(c, name, v, fs, ck)
  \/ \E data_hex \in {0, hex(CHUNK_SIZE)}, from \in ArchiveSizes :
       handle_upload_chunk(c, data_hex, from)
  \/ \E fault \in {"none", "move", "extract"} : handle_upload_complete(c, fault)
  \/ \E g \in GameIds, v \in Versions, fs, ck \in ArchiveSizes \cup {None} :
       handle_update_game(c, g, v, fs, ck)
  \/ \E g \in GameIds : handle_remove_game(c, g)

\* C27: on a connection without an authenticated user, DOWNLOAD_REQUEST,
\* CREATE_ROOM, JOIN_ROOM, LEAVE_ROOM, START_GAME_REQUEST and SUBMIT_REVIEW on
\* the lobby, and MY_GAMES_REQUEST, UPLOAD_START, UPLOAD_CHUNK,
\* UPLOAD_COMPLETE, UPDATE_GAME and REMOVE_GAME on the developer server, are
\* answered with ERROR "Not authenticated" and change no catalog, room,
\* supervisor or upload state.
C27_UnauthenticatedRefused ==
  [][/\ \A c \in ClientIds :
          (/\ nreq' = nreq + 1
           /\ c \in DOMAIN clients
           /\ clients[c] = None
           /\ LobbyRequest(c))
          => /\ AnsweredWithError(c)
             /\ Last(wire'[c]).text = "Not authenticated"
             /\ UNCHANGED <<clients, dbVars, supVars, archVars, downloads, reviews>>
     /\ \A c \in DevClientIds :
          (/\ nreq' = nreq + 1
           /\ c \in DOMAIN dclients
           /\ dclients[c] = None
           /\ DeveloperRequest(c))
          => /\ dreply'[c] = [type |-> "ERROR", error |-> "Not authenticated"]
             /\ UNCHANGED <<dclients, games, archVars, uploads, temps>>]_vars

\* C28: a session token validates only while now < its expires_at, and a
\* token that was deleted or whose expiry has passed never validates again.
C28_TokenValidUntilExpiry ==
  /\ [](\A token \in DOMAIN player_sessions :
          validate_player_session(player_sessions, token, now)
          => Before(now, Instant(player_sessions[token].expires_at)))
  /\ [][\A token \in DOMAIN player_sessions :
          (\/ player_sessions[token].deleted
           \/ ~Before(now, Instant(player_sessions[token].expires_at)))
          => ~validate_player_session(player_sessions', token, now')]_vars

\* C29: a frame whose tag is not in the message-type set, or whose body is
\* malformed, is answered with ERROR and the connection stays open.
C29_BadFrameAnsweredWithError ==
  [][\A c \in ClientIds, tag \in FrameTags, body \in FrameBodies :
       (/\ nreq' = nreq + 1
        /\ c \in DOMAIN clients
        /\ (tag \notin MessageType \/ body = "malformed")
        /\ read_from_stream_raises(c, tag, body))
       => /\ c \in DOMAIN clients'
          /\ AnsweredWithError(c)]_vars

\* C30: a step in which the lobby reads a well-formed request with a known tag
\* (a missing or nonexistent room_id or game_id included) closes no
\* connection: every connection open before the request is open after it, and
\* the one whose handler finished in the step has one more message written.
C30_RequestKeepsConnectionOpen ==
  [][(nreq' = nreq + 1 \/ nauth' = nauth + 1)
       => \A c \in DOMAIN clients :
            /\ c \in DOMAIN clients'
            /\ c \in DOMAIN wire'
            /\ (pc[c] = "idle" /\ pc'[c] = "idle" /\ wire'[c] # wire[c])
                 => Len(wire'[c]) >= Len(wire[c]) + 1]_vars

\* The frames writer w has handed to its connection's transport so far.
Written(w) ==
  SubSeq(writers[w].msgs, 1, writers[w].n + IF writers[w].at = "drain" THEN 1 ELSE 0)

Count(seq, m) == Cardinality({i \in DOMAIN seq : seq[i] = m})

RECURSIVE WrittenTo(_, _, _)
\* How many times the writers 1..w have written message m to connection c.
WrittenTo(c, m, w) ==
  IF w = 0 THEN 0
  ELSE WrittenTo(c, m, w - 1) + IF writers[w].to = c THEN Count(Written(w), m) ELSE 0

\* C31: on every connection the bytes written so far read back, frame by
\* frame, as exactly the frames the coroutines have written to it, each one
\* whole: no frame is cut by the bytes of another, whichever coroutines wrote
\* them and wherever they were suspended.
C31_FramesContiguous ==
  \A c \in ClientIds :
    LET r == read_from_stream(stream[c])
    IN /\ (\A w \in DOMAIN writers : writers[w].at \in {"write", "drain"}) => r.rest = <<>>
       /\ \A i \in DOMAIN r.frames :
            /\ r.frames[i] # Raise
            /\ Count(r.frames, r.frames[i]) = WrittenTo(c, r.frames[i], Len(writers))
       /\ \A w \in DOMAIN writers :
            writers[w].to = c =>
              \A i \in DOMAIN Written(w) :
                Count(r.frames, Written(w)[i]) = WrittenTo(c, Written(w)[i], Len(writers))

\* Two coroutines have written to one connection, the second one while the
\* first was suspended in drain between its two frames.
C31_Witness ==
  \E c \in ClientIds, v, w \in DOMAIN writers :
    /\ v # w
    /\ writers[v].to = c /\ writers[w].to = c
    /\ writers[v].at = "drain" /\ writers[v].n = 0 /\ Len(writers[v].msgs) = MaxFrames
    /\ writers[w].n = 1
    /\ Len(read_from_stream(stream[c]).frames) = 2

\* C35: for every message with a known tag and a JSON-object body, the
\* serialized frame starts with a 4-byte length whose value is the length of
\* the body plus 2, and deserializing the bytes after it gives a message with
\* the same tag and the same body.
C35_SerializeRoundTrip ==
  \A w \in DOMAIN writers : \A i \in DOMAIN writers[w].msgs :
    LET msg == writers[w].msgs[i]
        data == serialize(msg)
    IN /\ msg.msg_type \in KnownTags
       /\ unpack_I(SubSeq(data, 1, 4)) = Len(json_dumps(msg.payload)) + 2
       /\ Len(data) = 4 + unpack_I(SubSeq(data, 1, 4))
       /\ deserialize_data(SubSeq(data, 5, Len(data))) = msg

\* A frame whose body has two keys was written and read back from the bytes
\* of its connection.
C35_Witness ==
  \E c \in ClientIds :
    \E i \in DOMAIN read_from_stream(stream[c]).frames :
      LET m == read_from_stream(stream[c]).frames[i]
      IN m # Raise /\ Len(m.payload) = 2 /\ stream[c] = serialize(m)

\* The step is a JOIN_ROOM that succeeded: a membership row was added to a
\* room that existed.
JoinSucceeds ==
  /\ nreq' = nreq + 1
  /\ Len(rooms') = Len(rooms)
  /\ room_players \subseteq room_players'
  /\ room_players' # room_players

\* C32: in the step in which a JOIN_ROOM succeeds, ROOM_JOINED is written to
\* the joiner's connection, nothing is written to any other connection, and the
\* broadcast the join triggers is a task that has not written any ROOM_UPDATE
\* yet; a ROOM_JOINED is written in no other step.
C32_JoinedBeforeBroadcast ==
  [][/\ JoinSucceeds =>
          \E c \in DOMAIN clients, row \in room_players' \ room_players :
            /\ clients[c] = row[2]
            /\ wire' = [wire EXCEPT ![c] =
                          Append(@, Msg(c, "ROOM_JOINED", row[1], None, "", 0, {}))]
            /\ Len(tasks') = Len(tasks) + 1
            /\ SubSeq(tasks', 1, Len(tasks)) = tasks
            /\ Last(tasks').room = row[1]
            /\ ~Last(tasks').started
     /\ \A c \in DOMAIN wire :
          (/\ c \in DOMAIN wire'
           /\ Len(wire'[c]) > Len(wire[c])
           /\ Last(wire'[c]).type = "ROOM_JOINED") => JoinSucceeds]_vars

\* A joiner's connection carries ROOM_JOINED and, after it, the ROOM_UPDATE of
\* the broadcast that lists the joiner.
C32_Witness ==
  \E c \in DOMAIN wire :
    \E i, j \in DOMAIN wire[c] :
      /\ i < j
      /\ wire[c][i].type = "ROOM_JOINED"
      /\ wire[c][j].type = "ROOM_UPDATE"
      /\ wire[c][j].room = wire[c][i].room
      /\ clients[c] \in wire[c][j].players

\* One pass of a broadcast on room r that has still to reach the members todo
\* and reports the members listed: either it ends, and then no member left has
\* an open session, or it writes ROOM_UPDATE with the listed members and their
\* number to the open session of one member left, and every member it passes
\* over has no open session.  rest: what is left after the pass.
BroadcastPass(r, listed, todo, ended, rest) ==
  IF ended
  THEN /\ \A m \in todo : find_client_by_user_id(clients, m) = None
       /\ \A d \in DOMAIN wire : Len(wire'[d]) > Len(wire[d]) => Last(wire'[d]).type # "ROOM_UPDATE"
  ELSE \E m \in todo :
         LET d == find_client_by_user_id(clients, m)
         IN /\ d # None
            /\ wire' = [wire EXCEPT ![d] =
                          Append(@, room_update(d, r, Cardinality(listed), listed))]
            /\ rest \subseteq todo \ {m}
            /\ \A x \in (todo \ {m}) \ rest : find_client_by_user_id(clients, x) = None

C38_OneChildPerRoom ==
  /\ [](\A p \in DOMAIN procs :
          procs[p].alive =>
            /\ procs[p].room \in DOMAIN game_processes
            /\ game_processes[procs[p].room] = p)
  /\ [][\A p \in DOMAIN procs :
          (/\ ~procs[p].alive
           /\ ~procs[p].monitored
           /\ procs'[p].monitored) =>
            \A r \in DOMAIN game_processes :
              game_processes[r] # p => (r \in DOMAIN game_processes' /\ game_processes'[r] = game_processes[r])]_vars

\* C36: a stop_game_server that found a supervisor entry has sent terminate to
\* the entry's child if it was running, kills it only after terminate, and has
\* returned only when that child has exited; and when shutdown_all has
\* returned, every child that had a supervisor entry when it was called has
\* exited.
C36_ShutdownStopsEveryChild ==
  /\ \A r \in DOMAIN shutdown.stops :
       LET s == shutdown.stops[r]
       IN /\ s.killed => s.terminated
          /\ s.at \in {"wait", "kill"} => s.terminated
          /\ (s.at = "done" /\ s.proc # None) => ~procs[s.proc].alive
  /\ shutdown.returned => \A p \in shutdown.entries : ~procs[p].alive

\* C34: a reply the receive thread reads while the send_and_wait call it
\* answers has not returned completes that call: it is stored as the response
\* of that request and is not passed to the notification callback; and a
\* response returned by a send_and_wait call is a reply to the request of
\* that call.
C34_ReplyCompletesPendingRequest ==
  /\ [][(/\ nc.socket # <<>>
         /\ nc'.socket = Tail(nc.socket)
         /\ Head(nc.socket).re = Len(nc.sent)
         /\ nc.caller \in {"sent", "waiting"})
        => /\ nc'.on_message = nc.on_message
           /\ Last(nc.sent) \in DOMAIN nc'.responses
           /\ nc'.responses[Last(nc.sent)] = Head(nc.socket)]_vars
  /\ [](\A i \in DOMAIN nc.returned :
          nc.returned[i].response.type # "None"
            => nc.returned[i].response.re = nc.returned[i].request)

\* C39: in every state every game row has a version row for its
\* current_version: a new-upload finalization that fails after the game row
\* was created leaves no game row behind.
C39_GameHasCurrentVersionRow ==
  \A g \in DOMAIN games :
    \E i \in DOMAIN game_versions :
      /\ game_versions[i].game_id = g
      /\ game_versions[i].version = games[g].current_version

\* C40: when a DOWNLOAD_REQUEST that names no version is answered with
\* DOWNLOAD_META for an active game, the version of that DOWNLOAD_META is the
\* latest_version a CHECK_UPDATE for the game reports in that state, the
\* game's current_version.
C40_ServedVersionIsLatestVersion ==
  [][\A c \in ClientIds, g \in GameIds :
       (/\ nreq' = nreq + 1
        /\ c \in DOMAIN clients
        /\ pc[c] = "idle"
        /\ net[c].inbox = <<[game_id |-> g, version |-> None]>>
        /\ pc'[c] = "dl_meta")
       => /\ Last(wire'[c]).type = "DOWNLOAD_META"
          /\ Last(wire'[c]).version = latest_version(games, g)]_vars

====
